---- MODULE Spec2Model ----
\* Model of stream-detection/video_streaming_app.py (class TShirtDetector):
\* the order matcher, the colour classifier, the order cache with its timed
\* refresh, the per-frame orchestrator with its snapshot cooldowns, and the
\* run loop that drives them.
EXTENDS Integers, Sequences, FiniteSets, TLC

\* ------------------------------------------------------------------
\* Bounds of the model
\* ------------------------------------------------------------------
\* time.time() at construction, in seconds (any value past the intervals)
StartTime == 40
\* seconds that pass in one Tick of the clock
TickStep == 5
\* the clock stops at StartTime + Horizon
Horizon == 15
\* the same for the specification of the order cache
RefreshHorizon == 40

\* ------------------------------------------------------------------
\* Program constants
\* ------------------------------------------------------------------
order_refresh_interval == 30
MatchedCooldown == 5
UnmatchedCooldown == 10
\* scores are kept in hundredths: feature_count / 100 is added to a score
ScoreScale == 100
MatchThreshold == 25
ColorBonus == 50
UnknownColorBonus == 10
DesignBase == 20
FeatureScoreCap == 20

\* Python's None as a detected colour, and as "no order"
None == "None"
NoMatch == [orderItemId |-> 0, color |-> "None", complete |-> FALSE]

\* ------------------------------------------------------------------
\* str.lower() on the colour strings that occur
\* ------------------------------------------------------------------
Lower(s) ==
    CASE s = "Blue" -> "blue"
      [] s = "BLUE" -> "blue"
      [] s = "Red" -> "red"
      [] s = "Unknown" -> "unknown"
      [] OTHER -> s

\* ------------------------------------------------------------------
\* find_matching_order: the score of one order, in hundredths
\* ------------------------------------------------------------------
TypeBonus(design_type) ==
    CASE design_type = "Text Only" -> 15
      [] design_type = "Graphics Only" -> 20
      [] design_type = "Text with Graphics" -> 25
      [] design_type = "Graphics with Text" -> 25
      [] design_type = "Complex Design" -> 30
      [] OTHER -> 0

\* variant: the colours are compared as written
ColorScoreCaseSensitive(order, detected_color) ==
    IF order.color = detected_color THEN ColorBonus
    ELSE IF detected_color = "unknown" THEN UnknownColorBonus
    ELSE 0

ColorScore(order, detected_color) ==
    IF Lower(order.color) = Lower(detected_color) THEN ColorBonus
    ELSE IF detected_color = "unknown" THEN UnknownColorBonus
    ELSE 0

\* variant: the bands of the complexity bonus include their lower ends
ComplexityBonusInclusive(f) ==
    IF f.overall_complexity >= 100 THEN 15
    ELSE IF f.overall_complexity >= 50 THEN 10 ELSE 0

\* the complexity bonus
ComplexityBonus(f) ==
    IF f.overall_complexity > 100 THEN 15
    ELSE IF f.overall_complexity > 50 THEN 10 ELSE 0

\* variant: the design terms are added for a Plain garment too
DesignScoreAlsoPlain(f) ==
    DesignBase + TypeBonus(f.design_type)
    + (IF f.design_type # "Plain" THEN ComplexityBonus(f) ELSE 0)
    + (IF f.text_elements > 3 THEN 10 ELSE 0)
    + (IF f.design_contours > 5 THEN 10 ELSE 0)

DesignScore(f) ==
    IF f.design_type # "Plain"
    THEN DesignBase + TypeBonus(f.design_type)
         + ComplexityBonus(f)
         + (IF f.text_elements > 3 THEN 10 ELSE 0)
         + (IF f.design_contours > 5 THEN 10 ELSE 0)
    ELSE 0

\* min(feature_count / 100, 20), in hundredths
FeatureScore(f) ==
    IF f.feature_count > 0
    THEN (IF f.feature_count < FeatureScoreCap * ScoreScale
          THEN f.feature_count ELSE FeatureScoreCap * ScoreScale)
    ELSE 0

OrderScore(order, detected_color, f) ==
    (ColorScore(order, detected_color) + DesignScore(f)) * ScoreScale
    + FeatureScore(f)

\* variant: score >= best_score, a tie replaces the best match
RECURSIVE ScanOrdersLastWins(_, _, _, _, _, _)
ScanOrdersLastWins(orders, i, detected_color, f, best_match, best_score) ==
    IF i > Len(orders) THEN <<best_match, best_score>>
    ELSE LET score == OrderScore(orders[i], detected_color, f)
         IN IF score >= best_score
            THEN ScanOrdersLastWins(orders, i + 1, detected_color, f, orders[i], score)
            ELSE ScanOrdersLastWins(orders, i + 1, detected_color, f, best_match,
                                    best_score)

RECURSIVE SumOfScores(_, _, _, _)
SumOfScores(orders, i, detected_color, f) ==
    IF i = 0 THEN 0
    ELSE OrderScore(orders[i], detected_color, f)
         + SumOfScores(orders, i - 1, detected_color, f)

\* variant: score is set to 0 once, before the loop, and grows from order to order
RECURSIVE ScanOrdersAccumulating(_, _, _, _, _, _)
ScanOrdersAccumulating(orders, i, detected_color, f, best_match, best_score) ==
    IF i > Len(orders) THEN <<best_match, best_score>>
    ELSE LET score == SumOfScores(orders, i, detected_color, f)
         IN IF score > best_score
            THEN ScanOrdersAccumulating(orders, i + 1, detected_color, f, orders[i],
                                        score)
            ELSE ScanOrdersAccumulating(orders, i + 1, detected_color, f, best_match,
                                        best_score)

\* the for loop over self.pending_orders, from index i on
RECURSIVE ScanOrders(_, _, _, _, _, _)
ScanOrders(orders, i, detected_color, f, best_match, best_score) ==
    IF i > Len(orders) THEN <<best_match, best_score>>
    ELSE LET score == OrderScore(orders[i], detected_color, f)
         IN IF score > best_score
            THEN ScanOrders(orders, i + 1, detected_color, f, orders[i], score)
            ELSE ScanOrders(orders, i + 1, detected_color, f, best_match, best_score)

\* variant: the best order is returned whenever it scored at all
find_matching_order_no_threshold(orders, detected_color, f) ==
    IF orders = <<>> THEN NoMatch
    ELSE IF detected_color = None THEN NoMatch
    ELSE LET r == ScanOrders(orders, 1, detected_color, f, NoMatch, 0)
         IN IF r[2] > 0 THEN r[1] ELSE NoMatch

\* None.lower() raises AttributeError on the first order; the handler returns None
find_matching_order(orders, detected_color, f) ==
    IF orders = <<>> THEN NoMatch
    ELSE IF detected_color = None THEN NoMatch
    ELSE LET r == ScanOrders(orders, 1, detected_color, f, NoMatch, 0)
         IN IF r[2] > MatchThreshold * ScoreScale THEN r[1] ELSE NoMatch

\* ------------------------------------------------------------------
\* detect_shirt_color over the masked pixels (a sequence of HSV pixels)
\* ------------------------------------------------------------------
color_names == <<"white", "black", "red", "orange", "blue", "yellow", "green">>

color_ranges(name) ==
    CASE name = "white"  -> [lo |-> <<0, 0, 180>>,  hi |-> <<180, 50, 255>>]
      [] name = "black"  -> [lo |-> <<0, 0, 0>>,    hi |-> <<180, 255, 80>>]
      [] name = "red"    -> [lo |-> <<0, 80, 80>>,  hi |-> <<15, 255, 255>>]
      [] name = "orange" -> [lo |-> <<10, 80, 80>>, hi |-> <<25, 255, 255>>]
      [] name = "blue"   -> [lo |-> <<95, 80, 80>>, hi |-> <<135, 255, 255>>]
      [] name = "yellow" -> [lo |-> <<15, 60, 80>>, hi |-> <<35, 255, 255>>]
      [] name = "green"  -> [lo |-> <<35, 60, 80>>, hi |-> <<85, 255, 255>>]

\* cv2.inRange on one pixel
InRange(p, name) ==
    LET r == color_ranges(name)
    IN \A c \in 1..3 : r.lo[c] <= p[c] /\ p[c] <= r.hi[c]

RECURSIVE SumChannel(_, _)
SumChannel(pixels, c) ==
    IF pixels = <<>> THEN 0 ELSE Head(pixels)[c] + SumChannel(Tail(pixels), c)

PixelCount(pixels, name) ==
    Cardinality({i \in 1..Len(pixels) : InRange(pixels[i], name)})

\* the for loop over self.color_ranges, from index k on
RECURSIVE DominantScan(_, _, _, _)
DominantScan(pixels, k, max_pixels, dominant_color) ==
    IF k > Len(color_names) THEN <<max_pixels, dominant_color>>
    ELSE LET pixel_count == PixelCount(pixels, color_names[k])
         IN IF pixel_count > max_pixels
            THEN DominantScan(pixels, k + 1, pixel_count, color_names[k])
            ELSE DominantScan(pixels, k + 1, max_pixels, dominant_color)

detect_dominant_color_from_mask(pixels) ==
    LET r == DominantScan(pixels, 1, 0, "unknown")
    IN IF 10 * r[1] > Len(pixels) THEN r[2] ELSE "unknown"

\* variant: an empty mask falls through to 'unknown'
detect_shirt_color_no_empty_check(pixels, raises) ==
    IF raises THEN None
    ELSE IF Len(pixels) = 0 THEN detect_dominant_color_from_mask(pixels)
    ELSE LET n == Len(pixels)
             h == SumChannel(pixels, 1)
             s == SumChannel(pixels, 2)
             v == SumChannel(pixels, 3)
         IN IF v < 80 * n THEN "black"
            ELSE IF v > 180 * n /\ s < 80 * n THEN "white"
            ELSE IF (0 <= h /\ h <= 15 * n) \/ (165 * n <= h /\ h <= 180 * n) THEN "red"
            ELSE IF 10 * n <= h /\ h <= 25 * n THEN "orange"
            ELSE IF 95 * n <= h /\ h <= 135 * n THEN "blue"
            ELSE IF 15 * n <= h /\ h <= 35 * n THEN "yellow"
            ELSE IF 35 * n <= h /\ h <= 85 * n THEN "green"
            ELSE detect_dominant_color_from_mask(pixels)

\* variant: the orange band is tried before the red band
detect_shirt_color_orange_first(pixels, raises) ==
    IF raises THEN None
    ELSE IF Len(pixels) = 0 THEN None
    ELSE LET n == Len(pixels)
             h == SumChannel(pixels, 1)
             s == SumChannel(pixels, 2)
             v == SumChannel(pixels, 3)
         IN IF v < 80 * n THEN "black"
            ELSE IF v > 180 * n /\ s < 80 * n THEN "white"
            ELSE IF 10 * n <= h /\ h <= 25 * n THEN "orange"
            ELSE IF (0 <= h /\ h <= 15 * n) \/ (165 * n <= h /\ h <= 180 * n) THEN "red"
            ELSE IF 95 * n <= h /\ h <= 135 * n THEN "blue"
            ELSE IF 15 * n <= h /\ h <= 35 * n THEN "yellow"
            ELSE IF 35 * n <= h /\ h <= 85 * n THEN "green"
            ELSE detect_dominant_color_from_mask(pixels)

\* raises: some call of the stage raised; the handler returns None
detect_shirt_color(pixels, raises) ==
    IF raises THEN None
    ELSE IF Len(pixels) = 0 THEN None
    ELSE LET n == Len(pixels)
             h == SumChannel(pixels, 1)
             s == SumChannel(pixels, 2)
             v == SumChannel(pixels, 3)
         IN IF v < 80 * n THEN "black"
            ELSE IF v > 180 * n /\ s < 80 * n THEN "white"
            ELSE IF (0 <= h /\ h <= 15 * n) \/ (165 * n <= h /\ h <= 180 * n) THEN "red"
            ELSE IF 10 * n <= h /\ h <= 25 * n THEN "orange"
            ELSE IF 95 * n <= h /\ h <= 135 * n THEN "blue"
            ELSE IF 15 * n <= h /\ h <= 35 * n THEN "yellow"
            ELSE IF 35 * n <= h /\ h <= 85 * n THEN "green"
            ELSE detect_dominant_color_from_mask(pixels)

\* ------------------------------------------------------------------
\* _classify_design_type and extract_design_features
\* edge density is kept in thousandths (edge_milli = edge_density * 1000)
\* ------------------------------------------------------------------
\* ten times complexity_score = 0.3*f + 0.3*c + 0.2*t + 0.2*edge_density*1000
Composite10(feature_count, design_contours, text_elements, edge_milli) ==
    3 * feature_count + 3 * design_contours + 2 * text_elements + 2 * edge_milli

\* variant: the graphics rules are tried before the text rules
classify_design_type_graphics_first(feature_count, design_contours, text_elements, edge_milli) ==
    LET c10 == Composite10(feature_count, design_contours, text_elements, edge_milli)
    IN IF text_elements <= 3 /\ design_contours <= 2 /\ feature_count < 100 /\ c10 < 500
       THEN "Plain"
       ELSE IF design_contours > 8
       THEN (IF text_elements > 3 THEN "Graphics with Text" ELSE "Graphics Only")
       ELSE IF text_elements > 5
       THEN (IF design_contours > 3 THEN "Text with Graphics" ELSE "Text Only")
       ELSE IF feature_count > 200 THEN "Complex Design"
       ELSE IF c10 > 1000 THEN "Moderate Design"
       ELSE IF c10 > 500 THEN "Simple Design"
       ELSE "Plain"

classify_design_type(feature_count, design_contours, text_elements, edge_milli) ==
    LET c10 == Composite10(feature_count, design_contours, text_elements, edge_milli)
    IN IF text_elements <= 3 /\ design_contours <= 2 /\ feature_count < 100 /\ c10 < 500
       THEN "Plain"
       ELSE IF text_elements > 5
       THEN (IF design_contours > 3 THEN "Text with Graphics" ELSE "Text Only")
       ELSE IF design_contours > 8
       THEN (IF text_elements > 3 THEN "Graphics with Text" ELSE "Graphics Only")
       ELSE IF feature_count > 200 THEN "Complex Design"
       ELSE IF c10 > 1000 THEN "Moderate Design"
       ELSE IF c10 > 500 THEN "Simple Design"
       ELSE "Plain"

\* the record returned by the handler when extraction raises
DefaultFeatures ==
    [feature_count |-> 0, design_contours |-> 0, text_elements |-> 0,
     overall_complexity |-> 0, design_type |-> "unknown"]

\* variant: the classifier is handed overall_complexity (edge_density * 1000)
\* in the place of edge_density
extract_design_features_scaled_twice(m, raises) ==
    IF raises THEN DefaultFeatures
    ELSE [feature_count |-> m.feature_count,
          design_contours |-> m.design_contours,
          text_elements |-> m.text_elements,
          overall_complexity |-> m.edge_milli,
          design_type |-> classify_design_type(m.feature_count, m.design_contours,
                                               m.text_elements, 1000 * m.edge_milli)]

\* m: what the image operators measured on the masked frame
extract_design_features(m, raises) ==
    IF raises THEN DefaultFeatures
    ELSE [feature_count |-> m.feature_count,
          design_contours |-> m.design_contours,
          text_elements |-> m.text_elements,
          overall_complexity |-> m.edge_milli,
          design_type |-> classify_design_type(m.feature_count, m.design_contours,
                                               m.text_elements, m.edge_milli)]

\* ------------------------------------------------------------------
\* _group_contours_by_proximity
\* a candidate is (contour_type, contour, area); of the contour the model
\* keeps its bounding rectangle (x, y, w, h), and id, the candidate's place in
\* the list given
\* ------------------------------------------------------------------
\* center = (x + w//2, y + h//2)
Center(c) == <<c.x + c.w \div 2, c.y + c.h \div 2>>

\* distance < 0.3 * frame_diagonal, both sides squared
contours_are_nearby(contour1, contour2, frame_shape) ==
    LET center1 == Center(contour1)
        center2 == Center(contour2)
        distance2 == (center1[1] - center2[1]) * (center1[1] - center2[1])
                     + (center1[2] - center2[2]) * (center1[2] - center2[2])
        diagonal2 == frame_shape[1] * frame_shape[1] + frame_shape[2] * frame_shape[2]
    IN 100 * distance2 < 9 * diagonal2

\* sorted(contours, key=lambda x: x[2], reverse=True): c goes before the
\* first candidate of a smaller area (the sort is stable)
RECURSIVE InsertByArea(_, _)
InsertByArea(c, sorted) ==
    IF sorted = <<>> THEN <<c>>
    ELSE IF Head(sorted).area < c.area THEN <<c>> \o sorted
    ELSE <<Head(sorted)>> \o InsertByArea(c, Tail(sorted))

RECURSIVE SortedByArea(_)
SortedByArea(contours) ==
    IF contours = <<>> THEN <<>>
    ELSE InsertByArea(contours[Len(contours)],
                      SortedByArea(SubSeq(contours, 1, Len(contours) - 1)))

\* variant: a candidate near any member of the group is taken
RECURSIVE AbsorbNearAnyMember(_, _, _, _, _, _)
AbsorbNearAnyMember(sorted_contours, i, j, used, current_group, frame_shape) ==
    IF j > Len(sorted_contours) THEN [group |-> current_group, used |-> used]
    ELSE IF j \in used
    THEN AbsorbNearAnyMember(sorted_contours, i, j + 1, used, current_group, frame_shape)
    ELSE IF \E m \in 1..Len(current_group) :
               contours_are_nearby(current_group[m], sorted_contours[j], frame_shape)
    THEN AbsorbNearAnyMember(sorted_contours, i, j + 1, used \cup {j},
                             Append(current_group, sorted_contours[j]), frame_shape)
    ELSE AbsorbNearAnyMember(sorted_contours, i, j + 1, used, current_group, frame_shape)

\* the inner loop, from index j on: the unused candidates near the seed i
RECURSIVE Absorb(_, _, _, _, _, _)
Absorb(sorted_contours, i, j, used, current_group, frame_shape) ==
    IF j > Len(sorted_contours) THEN [group |-> current_group, used |-> used]
    ELSE IF j \in used
    THEN Absorb(sorted_contours, i, j + 1, used, current_group, frame_shape)
    ELSE IF contours_are_nearby(sorted_contours[i], sorted_contours[j], frame_shape)
    THEN Absorb(sorted_contours, i, j + 1, used \cup {j},
                Append(current_group, sorted_contours[j]), frame_shape)
    ELSE Absorb(sorted_contours, i, j + 1, used, current_group, frame_shape)

\* the outer loop, from index i on
RECURSIVE GroupFrom(_, _, _, _, _)
GroupFrom(sorted_contours, i, used, groups, frame_shape) ==
    IF i > Len(sorted_contours) THEN groups
    ELSE IF i \in used
    THEN GroupFrom(sorted_contours, i + 1, used, groups, frame_shape)
    ELSE LET taken == Absorb(sorted_contours, i, 1, used \cup {i},
                             <<sorted_contours[i]>>, frame_shape)
         IN GroupFrom(sorted_contours, i + 1, taken.used,
                      Append(groups, taken.group), frame_shape)

group_contours_by_proximity(contours, frame_shape) ==
    IF contours = <<>> THEN <<>>
    ELSE GroupFrom(SortedByArea(contours), 1, {}, <<>>, frame_shape)

\* ------------------------------------------------------------------
\* image_comparison_app.compare_images
\* confidences are kept in ten-thousandths
\* ------------------------------------------------------------------
ConfidenceScale == 10000

\* what cv2.imread and cv2.cvtColor make of a file: no image when it does not
\* decode, else a grayscale image of h rows and w columns (gray: its pixel values)
NoImage == [readable |-> FALSE, h |-> 0, w |-> 0, gray |-> 0]
Image(h, w, gray) == [readable |-> TRUE, h |-> h, w |-> w, gray |-> gray]

\* np.array_equal(template_gray, search_gray)
array_equal(a, b) == a.h = b.h /\ a.w = b.w /\ a.gray = b.gray

\* variant: the direct comparison is never taken
IsIdenticalSkipped(template, search_image) == FALSE

\* same dimensions and equal pixels
IsIdentical(template, search_image) ==
    /\ template.h = search_image.h
    /\ template.w = search_image.w
    /\ array_equal(template, search_image)

\* variant: a failure reports confidence 0 and the lowest label
FailureWithConfidence(error) ==
    [success |-> FALSE, error |-> error, confidence |-> 0,
     match_quality |-> "No Significant Match"]

\* the dictionary returned for a failure
Failure(error) == [success |-> FALSE, error |-> error]

\* the dictionary returned by the direct comparison
DirectComparison(template, search_image) ==
    [success |-> TRUE,
     confidence |-> ConfidenceScale,
     match_quality |-> "Perfect Match (Identical Images)",
     template_size |-> <<template.w, template.h>>,
     search_image_size |-> <<search_image.w, search_image.h>>,
     match_location |-> <<0, 0>>,
     annotated_image |-> None,
     method_used |-> "Direct Comparison"]

\* cv2.matchTemplate accepts a template that exceeds the image in both
\* dimensions (it swaps them) and raises when it exceeds it in one only
TemplateFits(template, search_image) ==
    \/ (template.h <= search_image.h /\ template.w <= search_image.w)
    \/ (search_image.h <= template.h /\ search_image.w <= template.w)

methods == <<"TM_SQDIFF_NORMED", "TM_CCOEFF_NORMED", "TM_CCORR_NORMED">>

\* minMaxLoc of one pass: 1.0 - min_val for SQDIFF, max_val for the others
MethodConfidence(scores, k) ==
    IF methods[k] = "TM_SQDIFF_NORMED"
    THEN ConfidenceScale - scores.values[k]
    ELSE scores.values[k]

NoBest == [confidence |-> 0, method |-> None, location |-> <<>>]

\* the loop over the methods, from the k-th on
RECURSIVE BestOfMethods(_, _, _)
BestOfMethods(scores, k, best) ==
    IF k > Len(methods) THEN best
    ELSE LET confidence == MethodConfidence(scores, k)
         IN IF confidence > best.confidence
            THEN BestOfMethods(scores, k + 1,
                               [confidence |-> confidence, method |-> methods[k],
                                location |-> scores.locations[k]])
            ELSE BestOfMethods(scores, k + 1, best)

Min(a, b) == IF a < b THEN a ELSE b

\* variant: the boost is not capped
BoostUncapped(best_confidence) == (best_confidence * 11) \div 10

\* min(0.98, best_confidence * 1.1)
Boost(best_confidence) ==
    Min((98 * ConfidenceScale) \div 100, (best_confidence * 11) \div 10)

\* variant: a template as large as the search image is penalised too
SizeAdjustedFromEqual(h, w, search_h, search_w, best_confidence) ==
    IF 10 * h * w > 8 * search_h * search_w
    THEN (IF h * w >= search_h * search_w
          THEN best_confidence \div 2 ELSE best_confidence)
    ELSE IF 100 * h * w < search_h * search_w
    THEN (best_confidence * 8) \div 10
    ELSE best_confidence

\* the size ratio adjustments: size_ratio = (h * w) / (search_h * search_w)
SizeAdjusted(h, w, search_h, search_w, best_confidence) ==
    IF 10 * h * w > 8 * search_h * search_w
    THEN (IF h * w > search_h * search_w
          THEN best_confidence \div 2 ELSE best_confidence)
    ELSE IF 100 * h * w < search_h * search_w
    THEN (best_confidence * 8) \div 10
    ELSE best_confidence

\* variant: the 0.8 test comes before the 0.95 test
confidence_score_boost_first(h, w, search_h, search_w, best_confidence) ==
    IF h = search_h /\ w = search_w /\ 10 * best_confidence > 8 * ConfidenceScale
    THEN Boost(best_confidence)
    ELSE IF h = search_h /\ w = search_w
            /\ 100 * best_confidence > 95 * ConfidenceScale
    THEN ConfidenceScale
    ELSE SizeAdjusted(h, w, search_h, search_w, best_confidence)

confidence_score(h, w, search_h, search_w, best_confidence) ==
    IF h = search_h /\ w = search_w /\ 100 * best_confidence > 95 * ConfidenceScale
    THEN ConfidenceScale
    ELSE IF h = search_h /\ w = search_w
            /\ 10 * best_confidence > 8 * ConfidenceScale
    THEN Boost(best_confidence)
    ELSE SizeAdjusted(h, w, search_h, search_w, best_confidence)

\* variant: the breakpoints are exclusive
match_quality_exclusive(confidence) ==
    IF 100 * confidence > 99 * ConfidenceScale THEN "Perfect Match"
    ELSE IF 10 * confidence > 8 * ConfidenceScale THEN "Excellent Match"
    ELSE IF 10 * confidence > 6 * ConfidenceScale THEN "Good Match"
    ELSE IF 10 * confidence > 4 * ConfidenceScale THEN "Moderate Match"
    ELSE IF 10 * confidence > 2 * ConfidenceScale THEN "Weak Match"
    ELSE "No Significant Match"

match_quality(confidence) ==
    IF 100 * confidence >= 99 * ConfidenceScale THEN "Perfect Match"
    ELSE IF 10 * confidence >= 8 * ConfidenceScale THEN "Excellent Match"
    ELSE IF 10 * confidence >= 6 * ConfidenceScale THEN "Good Match"
    ELSE IF 10 * confidence >= 4 * ConfidenceScale THEN "Moderate Match"
    ELSE IF 10 * confidence >= 2 * ConfidenceScale THEN "Weak Match"
    ELSE "No Significant Match"

\* the three passes and what follows them; scores: what cv2.matchTemplate and
\* cv2.minMaxLoc yield for the pair (values, locations), per method
MatchTemplates(template, search_image, scores) ==
    LET best == BestOfMethods(scores, 1, NoBest)
        passes == [k \in 1..Len(methods) |-> "matchTemplate"]
        confidence == confidence_score(template.h, template.w, search_image.h,
                                       search_image.w, best.confidence)
    IN IF ~TemplateFits(template, search_image)
       THEN [result |-> Failure("cv2.error"), calls |-> <<"matchTemplate">>]
       ELSE IF best.method = None
       \* best_location is None: top_left[0] raises TypeError
       THEN [result |-> Failure("TypeError"), calls |-> passes]
       ELSE [result |-> [success |-> TRUE,
                         confidence |-> confidence,
                         match_quality |-> match_quality(confidence),
                         template_size |-> <<template.w, template.h>>,
                         search_image_size |-> <<search_image.w, search_image.h>>,
                         match_location |-> best.location,
                         annotated_image |-> "comparison_result.jpg",
                         method_used |-> best.method],
             calls |-> passes \o <<"imwrite">>]

\* the result, with the calls made to OpenCV on the way
compare_images(template, search_image, scores) ==
    LET reads == <<"imread", "imread">>
        rest == IF ~template.readable \/ ~search_image.readable
                THEN [result |-> Failure("Failed to read one or both images"),
                      calls |-> <<>>]
                ELSE IF IsIdentical(template, search_image)
                THEN [result |-> DirectComparison(template, search_image),
                      calls |-> <<>>]
                ELSE MatchTemplates(template, search_image, scores)
    IN [result |-> rest.result, calls |-> reads \o rest.calls]

\* ------------------------------------------------------------------
\* State
\* ------------------------------------------------------------------
VARIABLES
    pending_orders,                 \* self.pending_orders
    last_order_refresh,             \* self.last_order_refresh
    last_snapshot_time,             \* self.last_snapshot_time (order id -> time)
    last_unmatched_snapshot_time,   \* self.last_unmatched_snapshot_time, or Unset
    cap,                            \* self.cap
    is_running,                     \* self.is_running
    now,                            \* time.time()
    pc,                             \* position in run(), or in the test script
    frame,                          \* the frame being processed
    ret,                            \* what process_frame returned for it
    events,                         \* snapshot captures attempted in this iteration
    fetches,                        \* requests sent to the order source in this iteration
    refreshed_at,                   \* history: time of the last successful refresh
    captured,                       \* history: times of the captures, per key
    srcStable,                      \* the order source has settled on srcOrders
    srcOrders,
    template,                       \* compare_images: the decoded template image
    search_image,                   \* compare_images: the decoded search image
    match_scores,                   \* what the template matching yields for the pair
    result,                         \* the dictionary compare_images returned
    calls                           \* the OpenCV calls compare_images made

vars == <<pending_orders, last_order_refresh, last_snapshot_time,
          last_unmatched_snapshot_time, cap, is_running, now, pc, frame, ret,
          events, fetches, refreshed_at, captured, srcStable, srcOrders,
          template, search_image, match_scores, result, calls>>

\* the variables of an image comparison
compare_vars == <<template, search_image, match_scores, result, calls>>

\* the attribute does not exist yet (hasattr is false)
Unset == -1

\* ------------------------------------------------------------------
\* Inputs
\* ------------------------------------------------------------------
Order(id, color, complete) == [orderItemId |-> id, color |-> color, complete |-> complete]

\* complete = FALSE: a record without 'orderNumber' / 'size'
RunOrderLists ==
    { <<>>,
      <<Order(2, "red", TRUE), Order(1, "Blue", TRUE)>>,
      <<Order(2, "blue", FALSE)>> }

BluePx == <<110, 200, 200>>
RedPx == <<5, 200, 200>>
GreenPx == <<70, 200, 200>>
GreyPx == <<90, 30, 100>>
DarkPx == <<0, 0, 10>>
WhitePx == <<0, 0, 250>>

Measured(fc, dc, te, em) ==
    [feature_count |-> fc, design_contours |-> dc, text_elements |-> te, edge_milli |-> em]

NoFrame ==
    [garment |-> "none", pixels |-> <<>>, measured |-> Measured(0, 0, 0, 0),
     color_raises |-> FALSE, features_raises |-> FALSE]

Frame(garment, pixels, m, cr, fr) ==
    [garment |-> garment, pixels |-> pixels, measured |-> m,
     color_raises |-> cr, features_raises |-> fr]

\* garment: what detect_t_shirt makes of the frame ("yes", "no", or "error":
\* the stage raised and its handler returned (False, None))
RunFrames ==
    { Frame("no", <<>>, Measured(0, 0, 0, 0), FALSE, FALSE),
      Frame("error", <<>>, Measured(0, 0, 0, 0), FALSE, FALSE),
      Frame("yes", <<BluePx>>, Measured(0, 0, 0, 0), FALSE, FALSE),
      Frame("yes", <<RedPx, RedPx>>, Measured(300, 1, 6, 40), FALSE, FALSE),
      Frame("yes", <<GreyPx>>, Measured(20, 0, 0, 0), FALSE, FALSE),
      Frame("yes", <<BluePx>>, Measured(0, 0, 0, 0), TRUE, FALSE),
      Frame("yes", <<BluePx>>, Measured(0, 0, 0, 0), FALSE, TRUE) }

\* frames in which no garment is found
QuietFrames == {f \in RunFrames : f.garment # "yes"}

SinkOutcomes == {"ok", "non200", "raise"}

Response(status, orders) == [status |-> status, orders |-> orders]
Responses ==
    {Response("ok", L) : L \in RunOrderLists}
    \cup {Response("non200", <<>>), Response("raise", <<>>)}

\* what the order source answers to a request: anything, until it has settled
SourceAnswers ==
    IF srcStable THEN {Response("ok", srcOrders)} ELSE Responses

NoDetection == [is_t_shirt |-> FALSE, detected_color |-> None, matching_order |-> NoMatch]
NoRet == [is_t_shirt |-> FALSE, detected_color |-> "-", matching_order |-> NoMatch]

\* the detector's fields, with the requests and captures it has issued
Self ==
    [pending_orders |-> pending_orders,
     last_order_refresh |-> last_order_refresh,
     last_snapshot_time |-> last_snapshot_time,
     last_unmatched_snapshot_time |-> last_unmatched_snapshot_time,
     events |-> events,
     fetches |-> fetches,
     refreshed_at |-> refreshed_at]

\* ------------------------------------------------------------------
\* refresh_pending_orders
\* ------------------------------------------------------------------
\* variant: the gate compares with the snapshot cooldown
RefreshDueAfterCooldown(self, current_time) ==
    ~(current_time - self.last_order_refresh < MatchedCooldown)

\* the time gate: FALSE is the early return
RefreshDue(self, current_time) ==
    ~(current_time - self.last_order_refresh < order_refresh_interval)

\* requests.get is sent and answered; gate: last_order_refresh as the gate
\* saw it; since: the time of the last successful refresh
SendFetch(self, current_time, resp) ==
    [self EXCEPT !.fetches = Append(@, [at |-> current_time,
                                        gate |-> self.last_order_refresh,
                                        since |-> self.refreshed_at,
                                        status |-> resp.status])]

\* variant: a failed refresh empties the cache
StoreOrdersOrNone(self, current_time, resp) ==
    IF resp.status = "ok"
    THEN [self EXCEPT !.pending_orders = resp.orders,
                      !.last_order_refresh = current_time,
                      !.refreshed_at = current_time]
    ELSE [self EXCEPT !.pending_orders = <<>>]

\* variant: the time is stored, the list is not
StoreOrdersTimeOnly(self, current_time, resp) ==
    IF resp.status = "ok"
    THEN [self EXCEPT !.last_order_refresh = current_time,
                      !.refreshed_at = current_time]
    ELSE self

\* the answer is handled: only status 200 stores the list and the time
StoreOrders(self, current_time, resp) ==
    IF resp.status = "ok"
    THEN [self EXCEPT !.pending_orders = resp.orders,
                      !.last_order_refresh = current_time,
                      !.refreshed_at = current_time]
    ELSE self

refresh_pending_orders(self, current_time, resp) ==
    IF RefreshDue(self, current_time)
    THEN StoreOrders(SendFetch(self, current_time, resp), current_time, resp)
    ELSE self

\* self.last_order_refresh = 0; self.refresh_pending_orders()
force_refresh(self, current_time, resp) ==
    refresh_pending_orders([self EXCEPT !.last_order_refresh = 0], current_time, resp)

\* ------------------------------------------------------------------
\* snapshot captures
\* ------------------------------------------------------------------
Put(f, k, v) == [x \in (DOMAIN f) \cup {k} |-> IF x = k THEN v ELSE f[x]]

\* variant: the matched confidence is not capped at 1.0
matched_confidence_uncapped(design_features) ==
    (8 * ConfidenceScale) \div 10
    + (design_features.feature_count * ConfidenceScale) \div 200

\* min(0.8 + (design_features['feature_count'] / 200), 1.0), in ten-thousandths
matched_confidence(design_features) ==
    Min((8 * ConfidenceScale) \div 10
        + (design_features.feature_count * ConfidenceScale) \div 200,
        ConfidenceScale)

\* min(0.6 + (design_features['feature_count'] / 200), 0.8), in ten-thousandths
unmatched_confidence(design_features) ==
    Min((6 * ConfidenceScale) \div 10
        + (design_features.feature_count * ConfidenceScale) \div 200,
        (8 * ConfidenceScale) \div 10)

\* no request carried a confidence to the sink
NotReported == -1

\* confidence: the 'confidence' of the request the sink received; when saving
\* or uploading raised, no request was received
CaptureEvent(kind, key, current_time, sink, confidence) ==
    [kind |-> kind, key |-> key, at |-> current_time, outcome |-> sink,
     confidence |-> IF sink = "raise" THEN NotReported ELSE confidence]

\* sink: "ok" (status 200), "non200", or "raise" (saving or uploading raised)
capture_and_process_snapshot(self, matching_order, design_features, current_time, sink, resp) ==
    LET tried == [self EXCEPT !.events =
                     Append(@, CaptureEvent("matched", matching_order.orderItemId,
                                            current_time, sink,
                                            matched_confidence(design_features)))]
    IN IF sink = "ok" THEN force_refresh(tried, current_time, resp) ELSE tried

capture_unmatched_snapshot(self, design_features, current_time, sink) ==
    [self EXCEPT !.events =
        Append(@, CaptureEvent("unmatched", 0, current_time, sink,
                               unmatched_confidence(design_features)))]

\* ------------------------------------------------------------------
\* process_frame
\* ------------------------------------------------------------------
\* variant: the cooldown ends at 5 seconds
MatchedCooldownOverAtLimit(self, order_key, current_time) ==
    \/ order_key \notin DOMAIN self.last_snapshot_time
    \/ current_time - self.last_snapshot_time[order_key] >= MatchedCooldown

MatchedCooldownOver(self, order_key, current_time) ==
    \/ order_key \notin DOMAIN self.last_snapshot_time
    \/ current_time - self.last_snapshot_time[order_key] > MatchedCooldown

UnmatchedCooldownOver(last_unmatched, current_time) ==
    current_time - last_unmatched > UnmatchedCooldown

\* the branch taken when it returned None
UnmatchedBranch(self, design_features, current_time, sink) ==
    LET last == IF self.last_unmatched_snapshot_time = Unset
                THEN 0 ELSE self.last_unmatched_snapshot_time
        created == [self EXCEPT !.last_unmatched_snapshot_time = last]
    IN IF UnmatchedCooldownOver(last, current_time)
       THEN [capture_unmatched_snapshot(created, design_features, current_time, sink)
                EXCEPT !.last_unmatched_snapshot_time = current_time]
       ELSE created

\* variant: within the cooldown the frame is handled as unmatched
MatchedBranchElseUnmatched(self, matching_order, design_features, current_time, sink, resp) ==
    LET order_key == matching_order.orderItemId
    IN IF MatchedCooldownOver(self, order_key, current_time)
       THEN LET done == capture_and_process_snapshot(self, matching_order, design_features,
                                                     current_time, sink, resp)
            IN [done EXCEPT !.last_snapshot_time = Put(@, order_key, current_time)]
       ELSE UnmatchedBranch(self, design_features, current_time, sink)

\* variant: the timestamp is set only when the sink answered 200
MatchedBranchStampOnSuccess(self, matching_order, design_features, current_time, sink, resp) ==
    LET order_key == matching_order.orderItemId
    IN IF MatchedCooldownOver(self, order_key, current_time)
       THEN LET done == capture_and_process_snapshot(self, matching_order, design_features,
                                                     current_time, sink, resp)
            IN IF sink = "ok"
               THEN [done EXCEPT !.last_snapshot_time = Put(@, order_key, current_time)]
               ELSE done
       ELSE self

\* the branch taken when find_matching_order returned an order
MatchedBranch(self, matching_order, design_features, current_time, sink, resp) ==
    LET order_key == matching_order.orderItemId
    IN IF MatchedCooldownOver(self, order_key, current_time)
       THEN LET done == capture_and_process_snapshot(self, matching_order, design_features,
                                                     current_time, sink, resp)
            IN [done EXCEPT !.last_snapshot_time = Put(@, order_key, current_time)]
       ELSE self

Detected(detected_color, matching_order) ==
    [is_t_shirt |-> TRUE, detected_color |-> detected_color,
     matching_order |-> matching_order]

\* variant: an error raised while saving or uploading is not caught by the
\* capture functions and reaches the handler of process_frame
process_detected_sink_unhandled(self, fr, current_time, sink, resp) ==
    LET detected_color == detect_shirt_color(fr.pixels, fr.color_raises)
        design_features == extract_design_features(fr.measured, fr.features_raises)
        matching_order == find_matching_order(self.pending_orders,
                                              detected_color, design_features)
        after == IF matching_order # NoMatch
                 THEN MatchedBranch(self, matching_order, design_features,
                                    current_time, sink, resp)
                 ELSE UnmatchedBranch(self, design_features, current_time, sink)
    IN IF matching_order # NoMatch /\ ~matching_order.complete
       THEN [self |-> self, ret |-> NoDetection]
       ELSE IF sink = "raise" /\ after.events # self.events
       THEN [self |-> [self EXCEPT !.events = after.events], ret |-> NoDetection]
       ELSE [self |-> after, ret |-> Detected(detected_color, matching_order)]

\* the body of "if is_t_shirt:"
process_detected(self, fr, current_time, sink, resp) ==
    LET detected_color == detect_shirt_color(fr.pixels, fr.color_raises)
        design_features == extract_design_features(fr.measured, fr.features_raises)
        matching_order == find_matching_order(self.pending_orders,
                                              detected_color, design_features)
    IN IF matching_order # NoMatch
       THEN IF ~matching_order.complete
            \* matching_order['orderNumber'] raises KeyError: outer handler
            THEN [self |-> self, ret |-> NoDetection]
            ELSE [self |-> MatchedBranch(self, matching_order, design_features,
                                         current_time, sink, resp),
                  ret |-> Detected(detected_color, matching_order)]
       ELSE [self |-> UnmatchedBranch(self, design_features, current_time, sink),
             ret |-> Detected(detected_color, matching_order)]

\* variant: the stages have no handlers of their own, an error in one of
\* them reaches the handler of process_frame
process_frame_one_handler(self, fr, current_time, sink, resp) ==
    IF fr.garment # "yes" \/ fr.color_raises \/ fr.features_raises
    THEN [self |-> self, ret |-> NoDetection]
    ELSE process_detected(self, fr, current_time, sink, resp)

\* variant: a frame without a garment is handled as an unmatched garment
process_frame_no_garment_unmatched(self, fr, current_time, sink, resp) ==
    IF fr.garment # "yes"
    THEN [self |-> UnmatchedBranch(self, DefaultFeatures, current_time, sink),
          ret |-> NoDetection]
    ELSE process_detected(self, fr, current_time, sink, resp)

\* fr: the frame with what each stage makes of it ("error": detect_t_shirt
\* raised and its handler returned (False, None)); the result is the detector
\* afterwards and the returned triple
process_frame(self, fr, current_time, sink, resp) ==
    IF fr.garment # "yes"
    THEN [self |-> self, ret |-> NoDetection]
    ELSE process_detected(self, fr, current_time, sink, resp)

\* ------------------------------------------------------------------
\* The run loop
\* ------------------------------------------------------------------
\* no comparison has been requested
NoScores == [values |-> <<0, 0, 0>>, locations |-> <<<<0, 0>>, <<0, 0>>, <<0, 0>>>>]
NoResult == [success |-> FALSE, error |-> "-"]

NoComparison ==
    /\ template = NoImage
    /\ search_image = NoImage
    /\ match_scores = NoScores
    /\ result = NoResult
    /\ calls = <<>>

Init ==
    /\ NoComparison
    /\ pending_orders = <<>>
    /\ last_order_refresh = 0
    /\ last_snapshot_time = <<>>
    /\ last_unmatched_snapshot_time = Unset
    /\ cap = "None"
    /\ is_running = FALSE
    /\ now = StartTime
    /\ pc = "start"
    /\ frame = NoFrame
    /\ ret = NoRet
    /\ events = <<>>
    /\ fetches = <<>>
    /\ refreshed_at = 0
    /\ captured = <<>>
    /\ srcStable = FALSE
    /\ srcOrders = <<>>

\* the detector's fields take the values of the record
Becomes(self) ==
    /\ pending_orders' = self.pending_orders
    /\ last_order_refresh' = self.last_order_refresh
    /\ last_snapshot_time' = self.last_snapshot_time
    /\ last_unmatched_snapshot_time' = self.last_unmatched_snapshot_time
    /\ events' = self.events
    /\ fetches' = self.fetches
    /\ refreshed_at' = self.refreshed_at

\* history: the times of the captures of evs are added to those of their keys
\* (key 0: the unmatched captures)
RECURSIVE Recorded(_, _)
Recorded(h, evs) ==
    IF evs = <<>> THEN h
    ELSE LET k == Head(evs).key
             before == IF k \in DOMAIN h THEN h[k] ELSE <<>>
         IN Recorded(Put(h, k, Append(before, Head(evs).at)), Tail(evs))

\* start_camera(): cv2.VideoCapture raised ("raised": self.cap is not
\* assigned), isOpened() is false ("unopened"), a cap.set raised on the opened
\* device ("set_raised"), or the camera is ready ("opened")
CameraOutcomes == {"opened", "unopened", "raised", "set_raised"}

start_camera(outcome) ==
    [cap |-> CASE outcome = "raised" -> "None"
               [] outcome = "unopened" -> "unopened"
               [] OTHER -> "open",
     returned |-> outcome = "opened"]

\* variant: run() does not look at what start_camera returned
StartCameraGoesOn ==
    /\ pc = "start"
    /\ \E outcome \in CameraOutcomes :
          cap' = start_camera(outcome).cap
    /\ is_running' = TRUE
    /\ pc' = "refresh"
    /\ UNCHANGED <<pending_orders, last_order_refresh, last_snapshot_time,
                   last_unmatched_snapshot_time, now, frame, ret, events, fetches,
                   refreshed_at, captured, srcStable, srcOrders>>
    /\ UNCHANGED compare_vars

\* run(): start_camera, then is_running = True, or return
StartCamera ==
    /\ pc = "start"
    /\ \E outcome \in CameraOutcomes :
          LET started == start_camera(outcome)
          IN /\ cap' = started.cap
             /\ is_running' = started.returned
             /\ pc' = IF started.returned THEN "refresh" ELSE "done"
    /\ UNCHANGED <<pending_orders, last_order_refresh, last_snapshot_time,
                   last_unmatched_snapshot_time, now, frame, ret, events, fetches,
                   refreshed_at, captured, srcStable, srcOrders>>
    /\ UNCHANGED compare_vars

\* a new iteration begins: the requests it sends are counted from here
Begun(self) == [self EXCEPT !.fetches = <<>>]

\* the loop's periodic self.refresh_pending_orders()
RefreshOrders ==
    /\ pc = "refresh"
    /\ \E resp \in SourceAnswers :
          Becomes(refresh_pending_orders(Begun(Self), now, resp))
    /\ pc' = "read"
    /\ UNCHANGED <<cap, is_running, now, frame, ret, captured, srcStable, srcOrders>>
    /\ UNCHANGED compare_vars

\* ret, frame = self.cap.read(); a failed read continues the loop
ReadFrame(frames) ==
    /\ pc = "read"
    /\ \E ok \in BOOLEAN, f \in frames :
          /\ frame' = IF ok THEN f ELSE NoFrame
          /\ pc' = IF ok THEN "process" ELSE "refresh"
    /\ UNCHANGED <<fetches, pending_orders, last_order_refresh, last_snapshot_time,
                   last_unmatched_snapshot_time, cap, is_running, now, ret, events,
                   refreshed_at, captured, srcStable, srcOrders>>
    /\ UNCHANGED compare_vars

\* is_t_shirt, detected_color, matching_order = self.process_frame(frame)
ProcessFrame ==
    /\ pc = "process"
    /\ \E sink \in SinkOutcomes :
       \E resp \in (IF sink = "ok" THEN SourceAnswers ELSE {Response("raise", <<>>)}) :
          LET r == process_frame(Self, frame, now, sink, resp)
          IN /\ Becomes(r.self)
             /\ ret' = r.ret
             /\ captured' = Recorded(captured, r.self.events)
    /\ pc' = "key"
    /\ UNCHANGED <<cap, is_running, now, frame, srcStable, srcOrders>>
    /\ UNCHANGED compare_vars

\* variant: the capture is not released
CleanupKeepsCapture ==
    /\ is_running' = FALSE
    /\ cap' = cap
    /\ pc' = "done"

\* cleanup()
Cleanup ==
    /\ is_running' = FALSE
    /\ cap' = IF cap = "open" THEN "released" ELSE cap
    /\ pc' = "done"

\* the frame and the returned triple are not used after process_frame
Forgotten(self) == [self EXCEPT !.events = <<>>]

\* imshow, waitKey: 'q' breaks, 'r' forces a refresh, then time.sleep(0.01);
\* "interrupt": the iteration raised (KeyboardInterrupt or an error) and
\* run() goes to finally
HandleKey ==
    /\ pc = "key"
    /\ \E key \in {"none", "q", "r", "interrupt"} :
       \E resp \in (IF key = "r" THEN SourceAnswers ELSE {Response("raise", <<>>)}) :
          IF key \in {"q", "interrupt"}
          THEN /\ Cleanup
               /\ Becomes(Forgotten(Self))
          ELSE /\ Becomes(Forgotten(IF key = "r" THEN force_refresh(Self, now, resp)
                                     ELSE Self))
               /\ pc' = "refresh"
               /\ UNCHANGED <<cap, is_running>>
    /\ frame' = NoFrame
    /\ ret' = NoRet
    /\ UNCHANGED <<now, captured, srcStable, srcOrders>>
    /\ UNCHANGED compare_vars

\* KeyboardInterrupt, or an error of cap.read() or cv2.imshow, before the
\* iteration reaches waitKey: run() goes to finally
Interrupted ==
    /\ pc \in {"refresh", "read", "process"}
    /\ Cleanup
    /\ Becomes(Forgotten(Self))
    /\ frame' = NoFrame
    /\ ret' = NoRet
    /\ UNCHANGED <<now, captured, srcStable, srcOrders>>
    /\ UNCHANGED compare_vars

\* the clock advances while the loop runs
Tick(horizon) ==
    /\ pc \in {"refresh", "read", "process", "key"}
    /\ now + TickStep <= StartTime + horizon
    /\ now' = now + TickStep
    /\ UNCHANGED <<pending_orders, last_order_refresh, last_snapshot_time,
                   last_unmatched_snapshot_time, cap, is_running, pc, frame, ret,
                   events, fetches, refreshed_at, captured, srcStable, srcOrders>>
    /\ UNCHANGED compare_vars

\* the order source settles: from now on it answers 200 with the same list
SourceSettles ==
    /\ ~srcStable
    /\ pc \in {"refresh", "read", "process", "key"}
    /\ \E L \in RunOrderLists : srcOrders' = L
    /\ srcStable' = TRUE
    /\ UNCHANGED <<pending_orders, last_order_refresh, last_snapshot_time,
                   last_unmatched_snapshot_time, cap, is_running, now, pc, frame, ret,
                   events, fetches, refreshed_at, captured>>
    /\ UNCHANGED compare_vars

Next ==
    \/ StartCamera
    \/ RefreshOrders
    \/ ReadFrame(RunFrames)
    \/ ProcessFrame
    \/ HandleKey
    \/ Interrupted
    \/ Tick(Horizon)

Spec == Init /\ [][Next]_vars

\* The order cache over a longer time, before a camera that sees no garment,
\* with an order source that settles; every step of the loop is taken in the
\* end, and time passes.
RefreshNext ==
    \/ StartCamera
    \/ RefreshOrders
    \/ ReadFrame(QuietFrames)
    \/ ProcessFrame
    \/ HandleKey
    \/ Tick(RefreshHorizon)
    \/ SourceSettles

RefreshSpec ==
    /\ Init
    /\ [][RefreshNext]_vars
    /\ WF_vars(RefreshOrders)
    /\ WF_vars(ReadFrame(QuietFrames))
    /\ WF_vars(ProcessFrame)
    /\ WF_vars(HandleKey)
    /\ WF_vars(Tick(RefreshHorizon))

\* ------------------------------------------------------------------
\* The stages called one by one, as test-video-detection.py does: the colour
\* of a mask, optionally overridden, then the order matcher on a list of
\* orders assigned to detector.pending_orders
\* ------------------------------------------------------------------
TestOrderLists ==
    { <<>>,
      <<Order(1, "Blue", TRUE)>>,
      <<Order(1, "red", TRUE), Order(2, "BLUE", TRUE)>>,
      <<Order(1, "blue", TRUE), Order(2, "Blue", TRUE)>>,
      <<Order(1, "green", TRUE), Order(2, "red", TRUE)>>,
      <<Order(1, "red", TRUE), Order(2, "Unknown", TRUE), Order(3, "unknown", TRUE)>> }

TestMasks ==
    { <<>>, <<BluePx>>, <<RedPx, RedPx>>, <<GreyPx>>, <<BluePx, GreenPx>>, <<DarkPx>>,
      <<WhitePx>> }

TestDesignTypes ==
    {"Plain", "Text Only", "Graphics Only", "Text with Graphics", "Graphics with Text",
     "Complex Design", "Moderate Design", "Simple Design", "unknown"}

\* any record of design features, also one no extraction would produce
TestFeatures ==
    [feature_count : {0, 150, 500, 501, 2500},
     design_contours : {0, 6},
     text_elements : {0, 4},
     overall_complexity : {0, 51, 100, 101},
     design_type : TestDesignTypes]

TestColors == {"blue", "Blue", "red", "unknown", "yellow"}

TestInit ==
    /\ NoComparison
    /\ pending_orders \in TestOrderLists
    /\ frame \in [pixels : TestMasks, features : TestFeatures]
    /\ pc = "test"
    /\ ret = [is_t_shirt |-> TRUE, detected_color |-> "-", matching_order |-> NoMatch,
              overridden |-> FALSE]
    /\ last_order_refresh = 0
    /\ last_snapshot_time = <<>>
    /\ last_unmatched_snapshot_time = Unset
    /\ cap = "None"
    /\ is_running = FALSE
    /\ now = StartTime
    /\ events = <<>>
    /\ fetches = <<>>
    /\ refreshed_at = 0
    /\ captured = <<>>
    /\ srcStable = FALSE
    /\ srcOrders = <<>>

TestUnchanged ==
    UNCHANGED <<pending_orders, last_order_refresh, last_snapshot_time,
                last_unmatched_snapshot_time, cap, is_running, now, frame, events,
                fetches, refreshed_at, captured, srcStable, srcOrders>>
    /\ UNCHANGED compare_vars

\* detected_color = detector.detect_shirt_color(demo_image, t_shirt_mask)
TestDetectColor ==
    /\ pc = "test"
    /\ ret' = [ret EXCEPT !.detected_color = detect_shirt_color(frame.pixels, FALSE)]
    /\ pc' = "test_color"
    /\ TestUnchanged

\* detected_color = 'blue'  (override for testing)
TestOverrideColor ==
    /\ pc = "test_color"
    /\ \E c \in TestColors :
          ret' = [ret EXCEPT !.detected_color = c, !.overridden = TRUE]
    /\ pc' = "test_override"
    /\ TestUnchanged

\* matching_order = detector.find_matching_order(detected_color, design_features)
TestFindMatchingOrder ==
    /\ pc \in {"test_color", "test_override"}
    /\ ret' = [ret EXCEPT !.matching_order =
                  find_matching_order(pending_orders, ret.detected_color, frame.features)]
    /\ pc' = "test_matched"
    /\ TestUnchanged

TestNext ==
    \/ TestDetectColor
    \/ TestOverrideColor
    \/ TestFindMatchingOrder

MatchSpec == TestInit /\ [][TestNext]_vars

\* ------------------------------------------------------------------
\* compare_images called on two image files, as test_identical_images.py
\* does: the files are written, then compared
\* ------------------------------------------------------------------
\* rows and columns of the images
TestShapes == {<<1, 1>>, <<8, 10>>, <<9, 10>>, <<10, 10>>, <<11, 11>>, <<12, 5>>}

TestGrays == {0, 1}

\* a file that does not decode, or an image
TestImages ==
    {NoImage} \cup {Image(sh[1], sh[2], g) : sh \in TestShapes, g \in TestGrays}

\* min_val of TM_SQDIFF_NORMED, max_val of TM_CCOEFF_NORMED and of
\* TM_CCORR_NORMED, with the locations of the three
TestScores ==
    [values : {0, 490, 1990, 9000, 10000}
              \X {-2000, 0, 1990, 6000, 8000, 9500}
              \X {0, 3990, 4000, 8900, 9000, 9900},
     locations : {<<<<0, 0>>, <<0, 0>>, <<0, 0>>>>, <<<<2, 1>>, <<0, 3>>, <<1, 1>>>>}]

CompareInit ==
    /\ template \in TestImages
    /\ search_image \in TestImages
    /\ match_scores \in TestScores
    /\ result = NoResult
    /\ calls = <<>>
    /\ pc = "compare"
    /\ pending_orders = <<>>
    /\ last_order_refresh = 0
    /\ last_snapshot_time = <<>>
    /\ last_unmatched_snapshot_time = Unset
    /\ cap = "None"
    /\ is_running = FALSE
    /\ now = StartTime
    /\ frame = NoFrame
    /\ ret = NoRet
    /\ events = <<>>
    /\ fetches = <<>>
    /\ refreshed_at = 0
    /\ captured = <<>>
    /\ srcStable = FALSE
    /\ srcOrders = <<>>

\* result = compare_images('test_images/image1.png', 'test_images/image2.png')
TestCompareImages ==
    /\ pc = "compare"
    /\ LET r == compare_images(template, search_image, match_scores)
       IN /\ result' = r.result
          /\ calls' = r.calls
    /\ pc' = "compared"
    /\ UNCHANGED <<template, search_image, match_scores>>
    /\ UNCHANGED <<pending_orders, last_order_refresh, last_snapshot_time,
                   last_unmatched_snapshot_time, cap, is_running, now, frame, ret,
                   events, fetches, refreshed_at, captured, srcStable, srcOrders>>

CompareNext == TestCompareImages

CompareSpec == CompareInit /\ [][CompareNext]_vars

\* ------------------------------------------------------------------
\* extract_design_features called on an image and its mask, as
\* test_enhanced_detection.py does
\* ------------------------------------------------------------------
\* what the image operators measure: keypoints, design contours, text
\* regions, and the edge density in thousandths
TestMeasured ==
    {Measured(fc, dc, te, em) : fc \in {0, 99, 100, 200, 201},
                                dc \in {0, 2, 3, 4, 8, 9},
                                te \in {0, 3, 4, 5, 6},
                                em \in {0, 100, 250, 400, 500}}

\* design_features before the call
NoFeatures ==
    [feature_count |-> 0, design_contours |-> 0, text_elements |-> 0,
     overall_complexity |-> 0, design_type |-> "-"]

FeatureInit ==
    /\ NoComparison
    /\ frame \in [measured : TestMeasured, features_raises : BOOLEAN,
                  features : {NoFeatures}]
    /\ pc = "extract"
    /\ ret = NoRet
    /\ pending_orders = <<>>
    /\ last_order_refresh = 0
    /\ last_snapshot_time = <<>>
    /\ last_unmatched_snapshot_time = Unset
    /\ cap = "None"
    /\ is_running = FALSE
    /\ now = StartTime
    /\ events = <<>>
    /\ fetches = <<>>
    /\ refreshed_at = 0
    /\ captured = <<>>
    /\ srcStable = FALSE
    /\ srcOrders = <<>>

\* design_features = detector.extract_design_features(frame, t_shirt_mask)
TestExtractFeatures ==
    /\ pc = "extract"
    /\ frame' = [frame EXCEPT !.features =
                    extract_design_features(frame.measured, frame.features_raises)]
    /\ pc' = "extracted"
    /\ UNCHANGED <<pending_orders, last_order_refresh, last_snapshot_time,
                   last_unmatched_snapshot_time, cap, is_running, now, ret, events,
                   fetches, refreshed_at, captured, srcStable, srcOrders>>
    /\ UNCHANGED compare_vars

FeatureNext == TestExtractFeatures

FeatureSpec == FeatureInit /\ [][FeatureNext]_vars

\* ------------------------------------------------------------------
\* _group_contours_by_proximity called on the candidates of a frame, as
\* detect_t_shirt does
\* ------------------------------------------------------------------
\* the longest list of candidates
MaxContours == 3

\* frame.shape: rows and columns
TestFrameShapes == {<<30, 40>>, <<3, 4>>}

\* bounding rectangles (x, y, w, h) with centers (1, 1), (11, 1), (16, 1),
\* (25, 1) and (2, 10)
TestRects ==
    {<<0, 0, 2, 2>>, <<10, 0, 3, 2>>, <<15, 0, 2, 2>>, <<24, 0, 2, 2>>, <<1, 9, 2, 2>>}

TestAreas == {150, 200, 300}

\* the candidates of a frame, each with its place in the list
TestContourLists ==
    UNION { { [k \in 1..n |-> [id |-> k, area |-> a[k], x |-> r[k][1], y |-> r[k][2],
                               w |-> r[k][3], h |-> r[k][4]]] :
              a \in [1..n -> TestAreas], r \in [1..n -> TestRects] } :
            n \in 0..MaxContours }

NoGroups == <<"-">>

GroupInit ==
    /\ NoComparison
    /\ frame \in [contours : TestContourLists, frame_shape : TestFrameShapes,
                  groups : {NoGroups}]
    /\ pc = "group"
    /\ ret = NoRet
    /\ pending_orders = <<>>
    /\ last_order_refresh = 0
    /\ last_snapshot_time = <<>>
    /\ last_unmatched_snapshot_time = Unset
    /\ cap = "None"
    /\ is_running = FALSE
    /\ now = StartTime
    /\ events = <<>>
    /\ fetches = <<>>
    /\ refreshed_at = 0
    /\ captured = <<>>
    /\ srcStable = FALSE
    /\ srcOrders = <<>>

\* contour_groups = self._group_contours_by_proximity(all_contours, frame.shape)
GroupContours ==
    /\ pc = "group"
    /\ frame' = [frame EXCEPT !.groups =
                    group_contours_by_proximity(frame.contours, frame.frame_shape)]
    /\ pc' = "grouped"
    /\ UNCHANGED <<pending_orders, last_order_refresh, last_snapshot_time,
                   last_unmatched_snapshot_time, cap, is_running, now, ret, events,
                   fetches, refreshed_at, captured, srcStable, srcOrders>>
    /\ UNCHANGED compare_vars

GroupNext == GroupContours

GroupSpec == GroupInit /\ [][GroupNext]_vars

\* ------------------------------------------------------------------
\* detect_shirt_color called on a frame and its mask, as
\* test_enhanced_detection.py does
\* ------------------------------------------------------------------
\* the most pixels under a mask
MaxMaskPixels == 2

\* hues at and next to the ends of the bands
TestHues == {0, 10, 12, 15, 16, 25, 26, 35, 36, 85, 86, 95, 135, 136, 164, 165, 179}

\* saturated pixels of these hues, and a dark, a white and a grey one
TestPixels == {<<h, 200, 200>> : h \in TestHues} \cup {DarkPx, WhitePx, GreyPx}

\* the HSV pixels under the mask
TestMaskPixels == UNION {[1..n -> TestPixels] : n \in 0..MaxMaskPixels}

NoColor == "-"

ColorInit ==
    /\ NoComparison
    /\ frame \in [pixels : TestMaskPixels, color_raises : BOOLEAN, color : {NoColor}]
    /\ pc = "color"
    /\ ret = NoRet
    /\ pending_orders = <<>>
    /\ last_order_refresh = 0
    /\ last_snapshot_time = <<>>
    /\ last_unmatched_snapshot_time = Unset
    /\ cap = "None"
    /\ is_running = FALSE
    /\ now = StartTime
    /\ events = <<>>
    /\ fetches = <<>>
    /\ refreshed_at = 0
    /\ captured = <<>>
    /\ srcStable = FALSE
    /\ srcOrders = <<>>

\* detected_color = detector.detect_shirt_color(frame, t_shirt_mask)
TestShirtColor ==
    /\ pc = "color"
    /\ frame' = [frame EXCEPT !.color =
                    detect_shirt_color(frame.pixels, frame.color_raises)]
    /\ pc' = "colored"
    /\ UNCHANGED <<pending_orders, last_order_refresh, last_snapshot_time,
                   last_unmatched_snapshot_time, cap, is_running, now, ret, events,
                   fetches, refreshed_at, captured, srcStable, srcOrders>>
    /\ UNCHANGED compare_vars

ColorNext == TestShirtColor

ColorSpec == ColorInit /\ [][ColorNext]_vars

\* ------------------------------------------------------------------
\* Properties of the order matcher and the colour classifier (MatchSpec)
\* ------------------------------------------------------------------
\* the spellings of one colour
ColorSpellings == {{"blue", "Blue", "BLUE"}, {"red", "Red"}, {"unknown", "Unknown"}}

EqualIgnoringCase(a, b) ==
    a = b \/ \E spellings \in ColorSpellings : a \in spellings /\ b \in spellings

Least(S) == CHOOSE i \in S : \A j \in S : i <= j

\* the orders of the list whose declared colour is the detected one
SameColorOrders ==
    {i \in 1..Len(pending_orders) :
        /\ ret.detected_color # None
        /\ EqualIgnoringCase(pending_orders[i].color, ret.detected_color)}

\* C1: whenever some pending order declares the detected colour (compared
\* without regard to case), find_matching_order returns the first such order
\* of the list, whatever the design features are.
C1_FirstOrderOfDetectedColor ==
    (pc = "test_matched" /\ SameColorOrders # {})
        => ret.matching_order = pending_orders[Least(SameColorOrders)]

C1_Witness ==
    /\ pc = "test_matched"
    /\ Len(pending_orders) = 2
    /\ SameColorOrders = {2}
    /\ pending_orders[2].color # ret.detected_color
    /\ ret.matching_order = pending_orders[2]

ScoreOf(i) == OrderScore(pending_orders[i], ret.detected_color, frame.features)

\* the orders that no order of the list outscores
BestOrders ==
    {i \in 1..Len(pending_orders) : \A j \in 1..Len(pending_orders) : ScoreOf(j) <= ScoreOf(i)}

\* C2: find_matching_order returns the order with the highest score if that
\* score exceeds 25, the earliest of the list among equals; it returns no
\* match when the best score is 25 or less or the list is empty. (A detected
\* colour of None gives no score: see C3.)
C2_BestScoreAboveThreshold ==
    (pc = "test_matched" /\ ret.detected_color # None)
        => IF pending_orders # <<>> /\ ScoreOf(Least(BestOrders)) > 25 * ScoreScale
           THEN ret.matching_order = pending_orders[Least(BestOrders)]
           ELSE ret.matching_order = NoMatch

C2_Witness ==
    /\ pc = "test_matched"
    /\ Cardinality(BestOrders) = 2
    /\ ret.detected_color # None
    /\ ScoreOf(1) > 25 * ScoreScale
    /\ ret.matching_order = pending_orders[1]

\* C3: for a mask without set pixels detect_shirt_color returns None, and
\* find_matching_order called with that colour returns no match, whatever
\* the pending orders and the design features are.
C3_EmptyMaskNoColorNoMatch ==
    (frame.pixels = <<>> /\ ~ret.overridden)
        => /\ pc \in {"test_color", "test_matched"} => ret.detected_color = None
           /\ pc = "test_matched" => ret.matching_order = NoMatch

C3_Witness ==
    /\ pc = "test_matched"
    /\ frame.pixels = <<>>
    /\ ~ret.overridden
    /\ Len(pending_orders) = 3
    /\ frame.features.design_type = "Complex Design"
    /\ frame.features.feature_count = 2500
    /\ ret.detected_color = None
    /\ ret.matching_order = NoMatch

\* ------------------------------------------------------------------
\* Properties of process_frame in the run loop (Spec)
\* ------------------------------------------------------------------
Cooldown(key) == IF key = 0 THEN UnmatchedCooldown ELSE MatchedCooldown

\* process_frame has just returned
FrameProcessed == pc = "process" /\ pc' = "key"

CapturesApart ==
    \A k \in DOMAIN captured :
        \A i, j \in 1..Len(captured[k]) :
            i < j => captured[k][j] - captured[k][i] > Cooldown(k)

\* a frame that matched an order whose own last capture, if any, is more
\* than 5 seconds old captures a snapshot for it, whatever the other keys show
OwnKeyOnly ==
    (FrameProcessed /\ ret'.is_t_shirt /\ ret'.matching_order # NoMatch)
        => LET k == ret'.matching_order.orderItemId
           IN (k \notin DOMAIN captured \/ now - captured[k][Len(captured[k])] > 5)
                 => /\ Len(events') = 1
                    /\ events'[1].kind = "matched"
                    /\ events'[1].key = k
                    /\ events'[1].at = now

\* C4: two matched captures for the same order id are more than 5 seconds
\* apart, two unmatched captures more than 10 seconds; the matched cooldown
\* is kept per order id, a capture for one id does not suppress one for another.
C4_CooldownsPerKey == []CapturesApart /\ [][OwnKeyOnly]_vars

C4_Witness ==
    /\ DOMAIN captured = {0, 1, 2}
    /\ Len(captured[1]) = 2
    /\ Len(captured[0]) = 2
    /\ captured[1][1] < captured[2][1]
    /\ captured[2][1] < captured[1][2]
    /\ captured[2][1] - captured[1][1] <= 5

\* C5: a frame emits at most one capture; a matched capture only for a
\* detected garment with a matching order, an unmatched capture only for a
\* detected garment without one, and no capture when no garment was detected.
C5_OneCapturePerFrame ==
    /\ pc # "key" => events = <<>>
    /\ pc = "key" =>
          /\ Len(events) <= 1
          /\ frame.garment # "yes" => events = <<>>
          /\ \A i \in 1..Len(events) :
                /\ frame.garment = "yes"
                /\ ret.is_t_shirt
                /\ events[i].kind = "matched" =>
                      /\ ret.matching_order # NoMatch
                      /\ events[i].key = ret.matching_order.orderItemId
                /\ events[i].kind = "unmatched" => ret.matching_order = NoMatch

C5_Witness ==
    /\ pc = "key"
    /\ frame.garment = "yes"
    /\ Len(events) = 1
    /\ events[1].kind = "matched"
    /\ ret.matching_order.orderItemId = 2
    /\ 0 \in DOMAIN captured

\* some stage of the frame raised an error
StageRaised ==
    \/ frame.garment = "error"
    \/ frame.garment = "yes" /\ (frame.color_raises \/ frame.features_raises)

\* C9 as claimed: a frame of which a stage raised is reported as no detection
\* and emits no capture.
C9_StageErrorIsNoDetection ==
    (pc = "key" /\ StageRaised) => (ret = NoDetection /\ events = <<>>)

\* C9, amended: only an error of garment detection, or one that reaches the
\* handler of process_frame, is reported as no detection, and then without a
\* capture; an error in the colour stage leaves colour None and no match, an
\* error in feature extraction leaves the colour as classified, and the
\* frame is still reported as a detection.
C9_StageErrorFallsBack ==
    pc = "key" =>
        /\ ~ret.is_t_shirt => (ret = NoDetection /\ events = <<>>)
        /\ frame.garment = "error" => ~ret.is_t_shirt
        /\ (frame.garment = "yes" /\ frame.color_raises)
              => ret = Detected(None, NoMatch)
        /\ (frame.garment = "yes" /\ frame.features_raises /\ ret.is_t_shirt)
              => ret.detected_color = detect_shirt_color(frame.pixels, frame.color_raises)

C9_Witness ==
    /\ pc = "key"
    /\ frame.garment = "yes"
    /\ frame.color_raises
    /\ ret.is_t_shirt
    /\ Len(events) = 1
    /\ events[1].kind = "unmatched"

\* C10: a frame on which no garment is detected, also one whose detection
\* raised, changes neither the snapshot times nor the order cache.
C10_NoGarmentNoStateChange ==
    [][(FrameProcessed /\ frame.garment # "yes")
          => UNCHANGED <<last_snapshot_time, last_unmatched_snapshot_time,
                         pending_orders, last_order_refresh>>]_vars

C10_Witness ==
    /\ pc = "key"
    /\ frame.garment = "error"
    /\ ret = NoDetection
    /\ DOMAIN last_snapshot_time = {1, 2}
    /\ last_unmatched_snapshot_time # Unset
    /\ pending_orders # <<>>

\* ------------------------------------------------------------------
\* Properties of the order cache (RefreshSpec)
\* ------------------------------------------------------------------
FetchesOf(log) == {log[i] : i \in 1..Len(log)}

\* C6 as claimed: a request is sent to the order source only when at least
\* 30 seconds have passed since the last successful refresh.
C6_FetchOnlyAfterInterval ==
    \A e \in FetchesOf(fetches) : e.at - e.since >= 30

\* C6, amended: a request is sent only when at least 30 seconds have passed
\* since last_order_refresh, which is the time of the last successful
\* refresh unless a forced refresh has set it back to 0; a refresh asked for
\* earlier sends nothing.
C6_FetchGatedByLastRefresh ==
    \A e \in FetchesOf(fetches) :
        /\ e.at - e.gate >= 30
        /\ e.gate = e.since \/ e.gate = 0

C6_Witness ==
    /\ Len(fetches) = 2
    /\ fetches[1].gate > 0
    /\ fetches[1].gate = fetches[1].since
    /\ fetches[1].at - fetches[1].gate >= 30
    /\ fetches[1].status = "ok"
    /\ fetches[2].gate = 0
    /\ fetches[2].at - fetches[2].since < 30

\* the requests sent in this step
NewFetches ==
    IF pc = "refresh" THEN fetches'
    ELSE SubSeq(fetches', Len(fetches) + 1, Len(fetches'))

FetchFailed ==
    /\ fetches' # fetches
    /\ NewFetches # <<>>
    /\ \A e \in FetchesOf(NewFetches) : e.status # "ok"

\* C7: a refresh that fails (an error, or a status other than 200) leaves the
\* cached list as it was, and the loop goes on to its next step with it.
C7_FailedRefreshKeepsCache ==
    [][FetchFailed => (/\ pending_orders' = pending_orders
                       /\ is_running'
                       /\ pc' \in {"read", "refresh", "key"})]_vars

C7_Witness ==
    /\ pc = "read"
    /\ Len(fetches) = 1
    /\ fetches[1].status = "non200"
    /\ fetches[1].gate > 0
    /\ pending_orders # <<>>
    /\ is_running

\* the clock of the model still reaches the end of the interval
IntervalAhead == now + order_refresh_interval + TickStep <= StartTime + RefreshHorizon

CacheCatchesUp ==
    [](srcStable /\ IntervalAhead => <>(pending_orders = srcOrders \/ pc = "done"))

FailureKeepsLastRefresh == FetchFailed => last_order_refresh' <= last_order_refresh

\* C8: once the order source answers 200 with the same list for good, and
\* the loop keeps running, the cached list becomes that list; a failed
\* refresh does not advance last_order_refresh, so the next call tries again.
C8_CacheEventuallyConsistent ==
    CacheCatchesUp /\ [][FailureKeepsLastRefresh]_vars

C8_Witness ==
    /\ srcStable
    /\ srcOrders # <<>>
    /\ pending_orders = srcOrders
    /\ Len(fetches) = 1
    /\ fetches[1].status = "ok"
    /\ fetches[1].gate > 0
    /\ fetches[1].at - fetches[1].gate >= order_refresh_interval
    /\ last_order_refresh = fetches[1].at


\* ------------------------------------------------------------------
\* Failures around the frame loop (Spec)
\* ------------------------------------------------------------------
\* a snapshot was attempted for the frame and its sink failed
SinkFailed == \E i \in 1..Len(events) : events[i].outcome # "ok"

\* C11: when the sink of a matched or an unmatched snapshot fails (a response
\* other than 200, or an error raised while saving or uploading), process_frame
\* has still returned the detection (garment found, the detected colour, the
\* matching order) and the loop is still running, at the step after the frame.
C11_SinkFailureKeepsDetection ==
    SinkFailed =>
        /\ pc = "key"
        /\ is_running
        /\ cap = "open"
        /\ ret.is_t_shirt
        /\ ret.detected_color = detect_shirt_color(frame.pixels, frame.color_raises)
        /\ ret.matching_order =
              find_matching_order(pending_orders, ret.detected_color,
                  extract_design_features(frame.measured, frame.features_raises))
        /\ \A i \in 1..Len(events) :
              events[i].kind = "matched" <=> ret.matching_order # NoMatch

C11_Witness ==
    /\ pc = "key"
    /\ Len(events) = 1
    /\ events[1].kind = "matched"
    /\ events[1].outcome = "raise"
    /\ ret.matching_order.orderItemId = 1


\* the capture device could not be opened: cv2.VideoCapture raised, or
\* isOpened() was false
OpenFailed == pc # "start" /\ cap \in {"None", "unopened"}

Compared == pc = "compared"

BothDecoded == template.readable /\ search_image.readable

SameSize == template.h = search_image.h /\ template.w = search_image.w

NoCall(name) == \A i \in 1..Len(calls) : calls[i] # name

\* C13: two decoded images of the same dimensions and equal grayscale pixels
\* (an image compared with itself among them) give a successful result with
\* confidence 1.0, the label 'Perfect Match (Identical Images)' and location
\* (0, 0), and no template matching pass is run.
C13_IdenticalImagesPerfectMatch ==
    (Compared /\ BothDecoded /\ SameSize /\ template.gray = search_image.gray) =>
        /\ result.success
        /\ result.confidence = ConfidenceScale
        /\ result.match_quality = "Perfect Match (Identical Images)"
        /\ result.match_location = <<0, 0>>
        /\ NoCall("matchTemplate")

C13_Witness ==
    /\ Compared
    /\ template.readable
    /\ template = search_image
    /\ match_scores.values = <<10000, 6000, 3990>>
    /\ match_scores.locations[2] = <<0, 3>>
    /\ result.success

\* C14: when one of the two files does not decode, the result is a failure
\* made of success = false and an error reason only (no confidence, no
\* label); the two reads are the only calls made: no matching pass is run, no
\* annotated image is written and no file is read a second time.
C14_UndecodableImageFails ==
    (Compared /\ ~BothDecoded) =>
        /\ DOMAIN result = {"success", "error"}
        /\ ~result.success
        /\ result.error = "Failed to read one or both images"
        /\ calls = <<"imread", "imread">>

C14_Witness ==
    /\ Compared
    /\ template.readable
    /\ ~search_image.readable
    /\ ~result.success

\* C15: the confidence of every successful result lies within [0, 1].
C15_ConfidenceWithinUnitInterval ==
    (Compared /\ result.success) =>
        (0 <= result.confidence /\ result.confidence <= ConfidenceScale)

\* the same-size boost of a raw 0.95, capped at 0.98
C15_Witness ==
    /\ Compared
    /\ result.success
    /\ SameSize
    /\ match_scores.values = <<9000, 9500, 9000>>
    /\ result.confidence = (98 * ConfidenceScale) \div 100

\* the label the breakpoints give a confidence
BreakpointLabel(c) ==
    CASE 100 * c >= 99 * ConfidenceScale -> "Perfect Match"
      [] 100 * c < 99 * ConfidenceScale /\ 10 * c >= 8 * ConfidenceScale -> "Excellent Match"
      [] 10 * c < 8 * ConfidenceScale /\ 10 * c >= 6 * ConfidenceScale -> "Good Match"
      [] 10 * c < 6 * ConfidenceScale /\ 10 * c >= 4 * ConfidenceScale -> "Moderate Match"
      [] 10 * c < 4 * ConfidenceScale /\ 10 * c >= 2 * ConfidenceScale -> "Weak Match"
      [] OTHER -> "No Significant Match"

\* C16 as stated: the label of every successful result is the one the
\* breakpoints give its confidence (so that equal confidences carry equal labels).
C16_LabelFromConfidenceAlone ==
    (Compared /\ result.success) =>
        result.match_quality = BreakpointLabel(result.confidence)

\* C16, amended: the direct comparison labels its confidence 1.0 'Perfect Match
\* (Identical Images)'; every other successful result carries the label the
\* breakpoints give its confidence.
C16_LabelFromConfidenceAndPath ==
    (Compared /\ result.success) =>
        result.match_quality =
            (IF result.method_used = "Direct Comparison"
             THEN "Perfect Match (Identical Images)"
             ELSE BreakpointLabel(result.confidence))

\* confidence 1.0 reached by the three passes: same as the direct
\* comparison's confidence, another label
C16_Witness ==
    /\ Compared
    /\ result.success
    /\ result.confidence = ConfidenceScale
    /\ result.method_used = "TM_SQDIFF_NORMED"
    /\ result.match_quality = "Perfect Match"

\* the best of the three confidences the passes yield
RawConfidences ==
    {ConfidenceScale - match_scores.values[1], match_scores.values[2],
     match_scores.values[3]}

RawBest == CHOOSE c \in RawConfidences : \A d \in RawConfidences : d <= c

\* C17: for two images of equal dimensions the confidence of a successful
\* result is at least the best raw confidence of the three passes, and when
\* that exceeds 0.8 the confidence is at least 0.8 and the label is an
\* Excellent or a Perfect Match.
C17_SameSizeNeverPenalised ==
    (Compared /\ result.success /\ SameSize) =>
        /\ result.confidence >= RawBest
        /\ (10 * RawBest > 8 * ConfidenceScale) =>
              /\ 10 * result.confidence >= 8 * ConfidenceScale
              /\ result.match_quality \in
                    {"Excellent Match", "Perfect Match",
                     "Perfect Match (Identical Images)"}

C17_Witness ==
    /\ Compared
    /\ result.success
    /\ SameSize
    /\ template.gray # search_image.gray
    /\ RawBest = 8900
    /\ result.confidence = 9790
    /\ result.match_quality = "Excellent Match"


\* ------------------------------------------------------------------
\* Properties of the design features (FeatureSpec)
\* ------------------------------------------------------------------
Extracted == pc = "extracted"

\* the classifier applied to the numeric fields of a record
TypeOfFields(f) ==
    classify_design_type(f.feature_count, f.design_contours, f.text_elements,
                         f.overall_complexity)

\* C18 as stated: in every record extract_design_features returns, the one
\* returned on failure included, design_type is the classifier's result for
\* the record's own numeric fields.
C18_TypeFromNumericFields ==
    Extracted => frame.features.design_type = TypeOfFields(frame.features)

\* C18, amended: in a record returned by an extraction that did not fail,
\* design_type is the classifier's result for the record's own numeric fields;
\* the record returned on failure has the numeric fields 0 and the design_type
\* 'unknown', which the classifier gives no record.
C18_TypeFromNumericFieldsUnlessFailed ==
    Extracted =>
        IF frame.features_raises
        THEN /\ frame.features.design_type = "unknown"
             /\ frame.features.feature_count = 0
             /\ frame.features.design_contours = 0
             /\ frame.features.text_elements = 0
             /\ frame.features.overall_complexity = 0
             /\ TypeOfFields(frame.features) = "Plain"
        ELSE /\ frame.features.design_type = TypeOfFields(frame.features)
             /\ frame.features.feature_count = frame.measured.feature_count
             /\ frame.features.design_contours = frame.measured.design_contours
             /\ frame.features.text_elements = frame.measured.text_elements
             /\ frame.features.overall_complexity = frame.measured.edge_milli

C18_Witness ==
    /\ Extracted
    /\ ~frame.features_raises
    /\ frame.features.overall_complexity = 400
    /\ frame.features.feature_count = 100
    /\ frame.features.design_type = "Moderate Design"

\* the nine rules, first match wins; composite is kept tenfold
NineRules(keypoints, objects, text, edge_milli) ==
    LET composite10 == 3 * keypoints + 3 * objects + 2 * text + 2 * edge_milli
        rules == << <<text <= 3 /\ objects <= 2 /\ keypoints < 100
                         /\ composite10 < 500, "Plain">>,
                    <<text > 5 /\ objects > 3, "Text with Graphics">>,
                    <<text > 5, "Text Only">>,
                    <<objects > 8 /\ text > 3, "Graphics with Text">>,
                    <<objects > 8, "Graphics Only">>,
                    <<keypoints > 200, "Complex Design">>,
                    <<composite10 > 1000, "Moderate Design">>,
                    <<composite10 > 500, "Simple Design">>,
                    <<TRUE, "Plain">> >>
        first == CHOOSE i \in 1..Len(rules) :
                    rules[i][1] /\ \A j \in 1..(i - 1) : ~rules[j][1]
    IN [rule |-> first, type |-> rules[first][2]]

\* C19: the design type of measured keypoints, object contours, text regions
\* and edge density is the one the first matching of the nine rules gives.
C19_NineRulesFirstMatchWins ==
    (Extracted /\ ~frame.features_raises) =>
        frame.features.design_type =
            NineRules(frame.measured.feature_count, frame.measured.design_contours,
                      frame.measured.text_elements, frame.measured.edge_milli).type

\* a record that the graphics rules match too, taken by a text rule
C19_Witness ==
    /\ Extracted
    /\ ~frame.features_raises
    /\ frame.measured.text_elements = 6
    /\ frame.measured.design_contours = 9
    /\ frame.features.design_type = "Text with Graphics"


\* ------------------------------------------------------------------
\* The score of an order (MatchSpec)
\* ------------------------------------------------------------------
StatedColorTerm(order, detected_color) ==
    CASE EqualIgnoringCase(order.color, detected_color) -> 50
      [] ~EqualIgnoringCase(order.color, detected_color)
         /\ detected_color = "unknown" -> 10
      [] OTHER -> 0

StatedTypeBonus ==
    [t \in {"Text Only", "Graphics Only", "Text with Graphics", "Graphics with Text",
            "Complex Design"} |->
        CASE t = "Text Only" -> 15
          [] t = "Graphics Only" -> 20
          [] t \in {"Text with Graphics", "Graphics with Text"} -> 25
          [] t = "Complex Design" -> 30]

StatedDesignTerm(f) ==
    IF f.design_type = "Plain" THEN 0
    ELSE 20
         + (IF f.design_type \in DOMAIN StatedTypeBonus
            THEN StatedTypeBonus[f.design_type] ELSE 0)
         + (IF f.text_elements > 3 THEN 10 ELSE 0)
         + (IF f.design_contours > 5 THEN 10 ELSE 0)

\* min(keypoint_count / 100, 20), in hundredths
StatedKeypointTerm(f) ==
    IF f.feature_count <= 20 * ScoreScale THEN f.feature_count ELSE 20 * ScoreScale

\* the complexity bonus an order's score contains, in hundredths
ComplexityPart(f) ==
    IF f.design_type # "Plain" THEN ComplexityBonus(f) * ScoreScale ELSE 0

\* C20: the score of every order, less the complexity bonus, is the colour
\* term plus the design term (only for a type other than Plain: 20, the type
\* bonus, 10 for more than 3 text regions, 10 for more than 5 object contours)
\* plus min(keypoint_count / 100, 20).
C20_ScoreTerms ==
    (pc = "test_matched" /\ ret.detected_color # None) =>
        \A i \in 1..Len(pending_orders) :
            OrderScore(pending_orders[i], ret.detected_color, frame.features)
                - ComplexityPart(frame.features)
            = (StatedColorTerm(pending_orders[i], ret.detected_color)
               + StatedDesignTerm(frame.features)) * ScoreScale
              + StatedKeypointTerm(frame.features)

C20_Witness ==
    /\ pc = "test_matched"
    /\ Len(pending_orders) = 3
    /\ ret.detected_color = "unknown"
    /\ frame.features.design_type = "Graphics with Text"
    /\ frame.features.text_elements = 4
    /\ frame.features.design_contours = 6
    /\ frame.features.feature_count = 2500
    /\ frame.features.overall_complexity = 101
    /\ ret.matching_order.orderItemId = 2


\* what is left of the score of the i-th order when the colour term, the
\* design term and the keypoint term are taken off, in hundredths
ScoreLessStatedTerms(i) ==
    OrderScore(pending_orders[i], ret.detected_color, frame.features)
    - (StatedColorTerm(pending_orders[i], ret.detected_color)
       + StatedDesignTerm(frame.features)) * ScoreScale
    - StatedKeypointTerm(frame.features)

\* ten times the composite of a record
StatedComposite10(f) ==
    3 * f.feature_count + 3 * f.design_contours + 2 * f.text_elements
    + 2 * f.overall_complexity

NonPlainScored ==
    /\ pc = "test_matched"
    /\ ret.detected_color # None
    /\ frame.features.design_type # "Plain"

\* C21 as stated: for a design other than Plain the complexity bonus is 15
\* when the composite exceeds 100, 10 when it exceeds 50 but not 100, else 0.
C21_BonusFromComposite ==
    NonPlainScored =>
        \A i \in 1..Len(pending_orders) :
            ScoreLessStatedTerms(i) =
                ScoreScale * (IF StatedComposite10(frame.features) > 1000 THEN 15
                              ELSE IF StatedComposite10(frame.features) > 500 THEN 10
                              ELSE 0)

\* C21, amended: for a design other than Plain the complexity bonus is 15
\* when overall_complexity (edge_density * 1000) exceeds 100, 10 when it
\* exceeds 50 but not 100, else 0, whatever the composite.
C21_BonusFromEdgeComplexity ==
    NonPlainScored =>
        \A i \in 1..Len(pending_orders) :
            ScoreLessStatedTerms(i) =
                ScoreScale * (IF frame.features.overall_complexity > 100 THEN 15
                              ELSE IF frame.features.overall_complexity > 50 THEN 10
                              ELSE 0)

\* a composite above 100 with an overall_complexity of 51: the bonus is 10
C21_Witness ==
    /\ NonPlainScored
    /\ Len(pending_orders) = 2
    /\ frame.features.overall_complexity = 51
    /\ frame.features.feature_count = 500
    /\ StatedComposite10(frame.features) > 1000
    /\ ScoreLessStatedTerms(1) = 10 * ScoreScale


\* ------------------------------------------------------------------
\* Matches without the colour (MatchSpec)
\* ------------------------------------------------------------------
\* some pending order declares the detected colour
ColorDeclared ==
    \E i \in 1..Len(pending_orders) :
        EqualIgnoringCase(pending_orders[i].color, ret.detected_color)

\* a Plain record extract_design_features can return: Plain is what the
\* classifier makes of its numbers
PlainExtracted ==
    /\ pc = "test_matched"
    /\ frame.features.design_type = "Plain"
    /\ TypeOfFields(frame.features) = "Plain"

MatchHasDetectedColor ==
    ret.matching_order # NoMatch =>
        EqualIgnoringCase(ret.matching_order.color, ret.detected_color)

\* C27 as stated: with a Plain record of an extraction, an order is returned
\* only if it declares the detected colour, and no order is returned when the
\* detected colour is 'unknown' or one that no pending order declares.
C27_PlainMatchesByColorOnly ==
    PlainExtracted =>
        /\ MatchHasDetectedColor
        /\ (ret.detected_color = "unknown" \/ ~ColorDeclared) =>
              ret.matching_order = NoMatch

\* C27, amended: with a Plain record of an extraction, an order is returned
\* only if it declares the detected colour, and no order is returned when no
\* pending order declares the detected colour ('unknown' is such a colour
\* unless an order declares it).
C27_PlainMatchesDeclaredColorOnly ==
    PlainExtracted =>
        /\ MatchHasDetectedColor
        /\ ~ColorDeclared => ret.matching_order = NoMatch

\* a Plain garment of 150 keypoints and unknown colour, before orders none
\* of which declares 'unknown'
C27_Witness ==
    /\ PlainExtracted
    /\ frame.features.feature_count = 150
    /\ ret.detected_color = "unknown"
    /\ Len(pending_orders) = 2
    /\ ~ColorDeclared
    /\ ret.matching_order = NoMatch

\* C28: when no pending order declares the detected colour, all orders have
\* the same score, and the result is no match or the first order of the list.
C28_UndeclaredColorFirstOrNone ==
    (pc = "test_matched" /\ ~ColorDeclared) =>
        /\ ret.detected_color # None =>
              \A i, j \in 1..Len(pending_orders) :
                  OrderScore(pending_orders[i], ret.detected_color, frame.features)
                  = OrderScore(pending_orders[j], ret.detected_color, frame.features)
        /\ \/ ret.matching_order = NoMatch
           \/ (pending_orders # <<>> /\ ret.matching_order = pending_orders[1])

C28_Witness ==
    /\ pc = "test_matched"
    /\ ~ColorDeclared
    /\ ret.detected_color = "yellow"
    /\ Len(pending_orders) = 2
    /\ frame.features.design_type = "Text Only"
    /\ ret.matching_order = pending_orders[1]


\* ------------------------------------------------------------------
\* From the raw to the final confidence (CompareSpec)
\* ------------------------------------------------------------------
\* a result of the three passes
ByPasses == Compared /\ result.success /\ result.method_used # "Direct Comparison"

TemplateArea == template.h * template.w

SearchArea == search_image.h * search_image.w

\* the branch the stated priority order takes, and what it makes of raw
StatedBranch(raw) ==
    CASE SameSize /\ 100 * raw > 95 * ConfidenceScale -> "snap"
      [] SameSize /\ 100 * raw <= 95 * ConfidenceScale
                  /\ 10 * raw > 8 * ConfidenceScale -> "boost"
      [] OTHER -> IF TemplateArea > SearchArea THEN "halve"
                  ELSE IF 100 * TemplateArea < SearchArea THEN "small"
                  ELSE "unchanged"

StatedFinal(raw) ==
    CASE StatedBranch(raw) = "snap" -> ConfidenceScale
      [] StatedBranch(raw) = "boost" ->
            IF (raw * 11) \div 10 > (98 * ConfidenceScale) \div 100
            THEN (98 * ConfidenceScale) \div 100 ELSE (raw * 11) \div 10
      [] StatedBranch(raw) = "halve" -> raw \div 2
      [] StatedBranch(raw) = "small" -> (raw * 8) \div 10
      [] OTHER -> raw

\* C23: the confidence of a result of the three passes is what the one branch
\* of the stated priority order makes of the best raw confidence: same
\* dimensions and raw > 0.95 gives 1.0; same dimensions and raw > 0.8 gives
\* min(0.98, raw * 1.1); otherwise a template area above the search area
\* halves raw, one below a hundredth of it gives raw * 0.8, any other leaves
\* raw unchanged.
C23_FinalFromRawByPriority ==
    ByPasses => result.confidence = StatedFinal(RawBest)

\* a 1 x 1 template in an 11 x 11 image: raw 0.9 becomes 0.72
C23_Witness ==
    /\ ByPasses
    /\ <<template.h, template.w>> = <<1, 1>>
    /\ <<search_image.h, search_image.w>> = <<11, 11>>
    /\ RawBest = 9000
    /\ StatedBranch(RawBest) = "small"
    /\ result.confidence = 7200

\* the first of the three methods, in the order they are tried, whose
\* confidence is the best raw confidence
FirstAttaining ==
    CHOOSE k \in 1..Len(methods) :
        /\ MethodConfidence(match_scores, k) = RawBest
        /\ \A j \in 1..(k - 1) : MethodConfidence(match_scores, j) # RawBest

\* C24: every pair that decodes and is not pixel-identical gives a successful
\* result, built on the maximum of the three method confidences, whose
\* match_location and method_used are those of the method attaining it.
C24_DecodedPairSucceedsWithBestOfThree ==
    (Compared /\ BothDecoded /\ ~IsIdentical(template, search_image)) =>
        /\ result.success
        /\ result.confidence = StatedFinal(RawBest)
        /\ result.method_used = methods[FirstAttaining]
        /\ result.match_location = match_scores.locations[FirstAttaining]


\* ------------------------------------------------------------------
\* The confidence of a capture (Spec)
\* ------------------------------------------------------------------
\* the keypoint count of the record the frame at hand gives
KeypointCount ==
    extract_design_features(frame.measured, frame.features_raises).feature_count

\* the requests the sink received for the frame at hand
Reports == {i \in 1..Len(events) : events[i].outcome # "raise"}

StatedConfidence(base, cap_) ==
    IF base * 200 + KeypointCount * 10 > cap_ * 200
    THEN (cap_ * ConfidenceScale) \div 10
    ELSE ((base * 200 + KeypointCount * 10) * ConfidenceScale) \div 2000

\* C22: a matched capture reports min(0.8 + keypoint_count/200, 1.0), an
\* unmatched capture min(0.6 + keypoint_count/200, 0.8); the matched
\* confidence lies in [0.8, 1.0], the unmatched one in [0.6, 0.8], and no
\* unmatched capture reports more than a matched one does.
C22_CaptureConfidence ==
    pc = "key" =>
        \A i \in Reports :
            /\ events[i].kind = "matched" =>
                  /\ events[i].confidence = StatedConfidence(8, 10)
                  /\ 10 * events[i].confidence >= 8 * ConfidenceScale
                  /\ events[i].confidence <= ConfidenceScale
            /\ events[i].kind = "unmatched" =>
                  /\ events[i].confidence = StatedConfidence(6, 8)
                  /\ 10 * events[i].confidence >= 6 * ConfidenceScale
                  /\ 10 * events[i].confidence <= 8 * ConfidenceScale
                  /\ events[i].confidence <= StatedConfidence(8, 10)

\* a matched capture of a garment of 300 keypoints: the cap of 1.0
C22_Witness ==
    /\ pc = "key"
    /\ KeypointCount = 300
    /\ Len(events) = 1
    /\ events[1].kind = "matched"
    /\ events[1].outcome = "non200"
    /\ events[1].confidence = ConfidenceScale

\* an unmatched capture of a garment of 20 keypoints: 0.7
C22_WitnessUnmatched ==
    /\ pc = "key"
    /\ KeypointCount = 20
    /\ Len(events) = 1
    /\ events[1].kind = "unmatched"
    /\ events[1].confidence = (7 * ConfidenceScale) \div 10


\* ------------------------------------------------------------------
\* A capture sets the cooldown whatever the sink did (Spec)
\* ------------------------------------------------------------------
\* the cooldown timestamp a capture event belongs to, in the detector d
\* (last_snapshot_time, last_unmatched_snapshot_time)
TimestampOf(ev, snapshot_times, unmatched_time) ==
    IF ev.kind = "matched"
    THEN (IF ev.key \in DOMAIN snapshot_times THEN snapshot_times[ev.key] ELSE Unset)
    ELSE unmatched_time

\* after process_frame, the timestamp of every capture it attempted is the
\* time of the attempt
TimestampAdvanced ==
    pc = "key" =>
        \A i \in 1..Len(events) :
            TimestampOf(events[i], last_snapshot_time, last_unmatched_snapshot_time)
                = events[i].at

\* a capture is attempted only when the timestamp found is absent or older
\* than the cooldown
AttemptedPastCooldown ==
    FrameProcessed =>
        \A i \in 1..Len(events') :
            LET found == TimestampOf(events'[i], last_snapshot_time,
                                     last_unmatched_snapshot_time)
                since == IF found = Unset /\ events'[i].kind = "unmatched" THEN 0
                         ELSE found
            IN \/ (found = Unset /\ events'[i].kind = "matched")
               \/ events'[i].at - since > Cooldown(events'[i].key)

\* C29: every capture attempted past its cooldown, matched or unmatched,
\* leaves its cooldown timestamp at the time of the attempt, whether or not
\* saving and uploading succeeded; an attempt is made only when the timestamp
\* found is older than the cooldown, so a failed capture is not retried
\* before the cooldown has elapsed again.
C29_FailedCaptureSetsCooldown == []TimestampAdvanced /\ [][AttemptedPastCooldown]_vars

\* a matched capture that raised while saving or uploading
C29_Witness ==
    /\ pc = "key"
    /\ Len(events) = 1
    /\ events[1].kind = "matched"
    /\ events[1].outcome = "raise"
    /\ now > StartTime
    /\ last_snapshot_time[events[1].key] = now

\* ------------------------------------------------------------------
\* Leaving the run loop (Spec)
\* ------------------------------------------------------------------
InLoop == pc \in {"refresh", "read", "process", "key"}

\* the loop runs on an opened camera; a released capture means the run is over
LoopOnOpenCamera ==
    /\ InLoop => (cap = "open" /\ is_running)
    /\ cap = "released" => (pc = "done" /\ ~is_running)

\* a step that leaves the loop is cleanup's; a frame is processed in the loop only
LeavesByCleanup ==
    /\ (InLoop /\ ~InLoop') => (pc' = "done" /\ ~is_running' /\ cap' = "released")
    /\ FrameProcessed => (cap = "open" /\ is_running /\ cap' = "open")
    /\ pc # "done"

\* C30: the loop runs on the opened camera; every step that leaves it (quit
\* key, keyboard interrupt, error) ends with is_running false and the capture
\* released; once that is so, no step follows, and no frame is processed.
C30_LoopEndsInCleanup == []LoopOnOpenCamera /\ [][LeavesByCleanup]_vars

\* the run has ended after captures were made
C30_Witness ==
    /\ pc = "done"
    /\ cap = "released"
    /\ ~is_running
    /\ captured # <<>>
    /\ now > StartTime


\* ------------------------------------------------------------------
\* Properties of the contour groups (GroupSpec)
\* ------------------------------------------------------------------
Grouped == pc = "grouped"

\* the places (group, position) of the groups returned
Places ==
    {p \in (1..Len(frame.groups)) \X (1..MaxContours + 1) :
        p[2] <= Len(frame.groups[p[1]])}

At(p) == frame.groups[p[1]][p[2]]

\* the center of b's bounding box is within 30% of the frame diagonal of a's
Within30Percent(a, b) ==
    LET ax == a.x + a.w \div 2
        ay == a.y + a.h \div 2
        bx == b.x + b.w \div 2
        by == b.y + b.h \div 2
    IN 100 * ((ax - bx) * (ax - bx) + (ay - by) * (ay - by))
          < 9 * (frame.frame_shape[1] * frame.frame_shape[1]
                 + frame.frame_shape[2] * frame.frame_shape[2])

\* C25: the groups partition the candidates (each at exactly one place, and
\* nothing else in the groups); the first member of a group, its seed, has
\* the largest area of the group; every other member is within 30% of the
\* frame diagonal of the seed; and no member of a group is within that
\* distance of the seed of an earlier group.
C25_GroupsPartitionBySeed ==
    Grouped =>
        /\ \A k \in 1..Len(frame.contours) :
              \E p \in Places :
                  /\ At(p) = frame.contours[k]
                  /\ \A q \in Places : At(q).id = k => q = p
        /\ \A p \in Places : At(p).id \in 1..Len(frame.contours)
        /\ \A g \in 1..Len(frame.groups) : frame.groups[g] # <<>>
        /\ \A p \in Places :
              /\ At(p).area <= frame.groups[p[1]][1].area
              /\ p[2] > 1 => Within30Percent(frame.groups[p[1]][1], At(p))
              /\ \A g \in 1..(p[1] - 1) : ~Within30Percent(frame.groups[g][1], At(p))

\* the largest candidate takes the one 10 away; the smallest, 14 away from
\* that one and 24 from the seed, is left for a group of its own
C25_Witness ==
    /\ Grouped
    /\ frame.frame_shape = <<30, 40>>
    /\ Len(frame.contours) = 3
    /\ frame.contours[1].area = 150 /\ frame.contours[1].x = 24
    /\ frame.contours[2].area = 300 /\ frame.contours[2].x = 0 /\ frame.contours[2].y = 0
    /\ frame.contours[3].area = 200 /\ frame.contours[3].x = 10
    /\ Len(frame.groups) = 2
    /\ Len(frame.groups[1]) = 2
    /\ frame.groups[2][1].id = 1


\* ------------------------------------------------------------------
\* Properties of the colour bands (ColorSpec)
\* ------------------------------------------------------------------
\* a colour was returned for a non-empty mask, no call of the stage raised
ColoredMask == pc = "colored" /\ frame.pixels # <<>> /\ ~frame.color_raises

BandPriority == <<"black", "white", "red", "orange", "blue", "yellow", "green">>

MaskSize == Len(frame.pixels)

MeanTimesSize(c) == SumChannel(frame.pixels, c)

\* lo <= mean hue <= hi
HueBetween(lo, hi) ==
    lo * MaskSize <= MeanTimesSize(1) /\ MeanTimesSize(1) <= hi * MaskSize

\* the mean of the masked pixels satisfies the band
BandHolds(name) ==
    CASE name = "black" -> MeanTimesSize(3) < 80 * MaskSize
      [] name = "white" -> MeanTimesSize(3) > 180 * MaskSize
                           /\ MeanTimesSize(2) < 80 * MaskSize
      [] name = "red" -> HueBetween(0, 15) \/ HueBetween(165, 180)
      [] name = "orange" -> HueBetween(10, 25)
      [] name = "blue" -> HueBetween(95, 135)
      [] name = "yellow" -> HueBetween(15, 35)
      [] name = "green" -> HueBetween(35, 85)

MatchingBands == {k \in 1..Len(BandPriority) : BandHolds(BandPriority[k])}

\* the pixels under the mask that lie in the HSV box of a named colour
Votes(name) ==
    Cardinality({i \in 1..MaskSize :
        \A c \in 1..3 : /\ color_ranges(name).lo[c] <= frame.pixels[i][c]
                         /\ frame.pixels[i][c] <= color_ranges(name).hi[c]})

NamedColors == {color_names[k] : k \in 1..Len(color_names)}

\* what the pixel vote allows: a colour no other outvotes, with more than 10%
\* of the masked pixels, or 'unknown' when no colour has that many
VoteAllows(color) ==
    IF color = "unknown"
    THEN \A name \in NamedColors : 10 * Votes(name) <= MaskSize
    ELSE /\ color \in NamedColors
         /\ 10 * Votes(color) > MaskSize
         /\ \A name \in NamedColors : Votes(name) <= Votes(color)

\* C26: on a non-empty mask the colour returned is that of the first band,
\* in the order black, white, red, orange, blue, yellow, green, that the mean
\* hue, saturation and value satisfy; the pixel vote decides only when no
\* band matches; the result is a named colour or 'unknown'.
C26_FirstBandInPriority ==
    ColoredMask =>
        /\ frame.color \in NamedColors \cup {"unknown"}
        /\ MatchingBands # {} =>
              \E k \in MatchingBands :
                  /\ frame.color = BandPriority[k]
                  /\ \A j \in MatchingBands : k <= j
        /\ MatchingBands = {} => VoteAllows(frame.color)

\* a mean hue of 12, in the red and in the orange band: red
C26_Witness ==
    /\ ColoredMask
    /\ MeanTimesSize(1) = 12 * MaskSize
    /\ {3, 4} \subseteq MatchingBands
    /\ frame.color = "red"

\* a mean hue of 20, in the orange and in the yellow band: orange
C26_WitnessOrange ==
    /\ ColoredMask
    /\ MeanTimesSize(1) = 20 * MaskSize
    /\ {4, 6} \subseteq MatchingBands
    /\ frame.color = "orange"

\* no band matches a mean hue of 89.5; the vote is for red
C26_WitnessVote ==
    /\ ColoredMask
    /\ MatchingBands = {}
    /\ frame.color = "red"

====
